---- MODULE Spec2Model ----
(***************************************************************************)
(* Model of the ZayCode agent core: the agent loop (core/agent.js), the    *)
(* conversation memory (core/memory.js), the tool executor                 *)
(* (core/executor.js), the router (core/router.js), the session state      *)
(* (core/state.js) and the streaming decoder (providers/openrouter.js).    *)
(*                                                                         *)
(* Text is modelled as a sequence of tokens (strings): a prompt is its     *)
(* words, an error message its parts; s.includes(x) is token membership.   *)
(* The wire data of the decoder is a sequence of bytes, one string each.   *)
(***************************************************************************)
EXTENDS Integers, Sequences, FiniteSets, TLC

\* ------------------------------------------------------------------ bounds
\* Runs of the agent per behaviour.
MaxRuns == 2
\* The provider stub answers with tool calls in the first k iterations of a
\* run, k in 0..MaxShortK or k = MAX_ITERATIONS.
MaxShortK == 2
\* The provider stub fails its n-th call of the session, n in 0..MaxFailAt
\* (0: never).
MaxFailAt == 2
\* The handler stub throws on its first n calls of the session.
MaxHandlerFails == 3
\* Characters of a large tool output and of any other token of text.
BigLen == 150000
WordLen == 8
\* Lines of a wire stream of the decoder.
MaxLines == 2
\* registerTool calls per behaviour.
MaxRegister == 2
\* calls of methods of the memory
MaxMemOps == 2
\* lines of a long tool output
LongLines == 60

\* ------------------------------------------------------- program constants
MAX_ITERATIONS == 20
MAX_MESSAGES == 50
CHARS_PER_TOKEN == 4
ContextMax == 128000
MinPruneLen == 10
MaxAttemptsCritical == 3
ErrorBodyMax == 500

\* ----------------------------------------------------------------- helpers
Includes(text, tok) == \E i \in 1..Len(text) : text[i] = tok

Last(s) == s[Len(s)]

\* The characters of a token: a large value, a line feed, a word.
CharLen(tok) == IF tok = "BIG" THEN BigLen ELSE IF tok = "\n" THEN 1 ELSE WordLen

RECURSIVE SumChars(_)
SumChars(text) ==
    IF text = <<>> THEN 0
    ELSE CharLen(Head(text)) + SumChars(Tail(text))

\* content.length: the characters of the tokens, summed one by one in a short
\* text and by kind of token in a long one.
SumLen(text) ==
    IF Len(text) < LongLines THEN SumChars(text)
    ELSE LET big == Cardinality({i \in 1..Len(text) : text[i] = "BIG"})
             feeds == Cardinality({i \in 1..Len(text) : text[i] = "\n"})
         IN  big * CharLen("BIG") + feeds * CharLen("\n")
             + (Len(text) - big - feeds) * WordLen

\* ------------------------------------------------------------ session state
VALID_MODES == {"auto", "code", "reason", "debug", "plan"}

MODE_DEFAULTS ==
    [m \in VALID_MODES |->
        CASE m = "auto" -> "openai/gpt-4.1-mini"
          [] m = "code" -> "qwen/qwen3-coder"
          [] m = "reason" -> "deepseek/deepseek-chat"
          [] m = "debug" -> "openai/gpt-4.1-mini"
          [] m = "plan" -> "anthropic/claude-sonnet-4"]

getDefaultModel(m) ==
    IF m \in DOMAIN MODE_DEFAULTS THEN MODE_DEFAULTS[m] ELSE MODE_DEFAULTS["auto"]

\* Model ids a user may lock with /use.
UserModels == {"user/model-x"}

\* The part of the session state the router reads.
SessionState(sMode, sModel, sOverride) ==
    [mode |-> sMode, activeModel |-> sModel, manualOverride |-> sOverride]

\* A switch to auto that clears the model and leaves the lock.
setMode_AutoKeepsLock(st, m) ==
    IF m \notin VALID_MODES THEN [state |-> st, threw |-> TRUE]
    ELSE [state |-> IF m = "auto"
                    THEN [st EXCEPT !.mode = m, !.activeModel = ""]
                    ELSE [st EXCEPT !.mode = m],
          threw |-> FALSE]

\* state.setMode(mode): the state it leaves, and whether it threw.
setMode(st, m) ==
    IF m \notin VALID_MODES THEN [state |-> st, threw |-> TRUE]
    ELSE [state |-> IF m = "auto"
                    THEN SessionState(m, "", FALSE)
                    ELSE [st EXCEPT !.mode = m],
          threw |-> FALSE]

\* state.setModel(modelId); "" stands for a missing or empty id.
setModel(st, modelId) ==
    IF modelId = "" THEN [state |-> st, threw |-> TRUE]
    ELSE [state |-> [st EXCEPT !.activeModel = modelId, !.manualOverride = TRUE],
          threw |-> FALSE]

\* state.clearModelOverride()
clearModelOverride(st) ==
    [state |-> [st EXCEPT !.activeModel = "", !.manualOverride = FALSE],
     threw |-> FALSE]

\* runSwarmTask: the model each phase locks with free models, and the mode each
\* phase sets without.
SwarmFreeModels ==
    <<"meta-llama/llama-3.3-70b-instruct:free", "qwen/qwen3-coder:free",
      "mistralai/mistral-small-3.1-24b-instruct:free">>

SwarmModes == <<"plan", "code", "debug">>

\* The switch at the head of a phase of runSwarmTask.
SwarmSwitch(st, useFreeModels, phase) ==
    IF useFreeModels THEN setModel(st, SwarmFreeModels[phase]).state
    ELSE setMode(st, SwarmModes[phase]).state

\* The finally block of runSwarmTask.
SwarmRestore(st, originalMode, originalModel, originalOverride) ==
    IF originalOverride /\ originalModel # ""
    THEN setModel([st EXCEPT !.manualOverride = FALSE], originalModel).state
    ELSE setMode(st, originalMode).state

\* ------------------------------------------------------------------- router
\* A text is a sequence of tokens; in a prompt a token is a run of word
\* characters (a word or a part of one), a white-space character or a
\* punctuation mark. Tokens that follow each other without a separator form
\* one word: "classifier" is <<"class", "ifier">>.
\* White space, as \s and trim() take it.
IsSpace(c) == c = " " \/ c = "\r" \/ c = "\n"

IsWordToken(t) == ~ IsSpace(t) /\ t \notin {"?", ".", ",", "-"}

\* The text of words (each a sequence of tokens) typed with single spaces.
RECURSIVE Spaced(_)
Spaced(words) ==
    IF Len(words) = 0 THEN <<>>
    ELSE IF Len(words) = 1 THEN words[1]
    ELSE words[1] \o <<" ">> \o Spaced(Tail(words))

\* The prompts of the runs. (The input loop trims what the user types.)
Prompts ==
    { Spaced(<< <<"why">>, <<"is">>, <<"this">> >>),
      Spaced(<< <<"refactor">>, <<"this">>, <<"function">>, <<"to">>, <<"be">>,
                <<"more">>, <<"efficient">> >>) }

\* The prompts the router is exercised with.
RouterPrompts ==
    Prompts \cup
    { Spaced(<< <<"fix">>, <<"this">>, <<"bug">> >>),
      Spaced(<< <<"fix">>, <<"the">>, <<"class", "ifier">>, <<"bug">> >>),
      Spaced(<< <<"fix">>, <<"the">>, <<"sorter">>, <<"bug">> >>),
      Spaced(<< <<"explore">>, <<"the">>, <<"c", "api", "tal">>, <<"data">> >>),
      Spaced(<< <<"explore">>, <<"the">>, <<"city">>, <<"data">> >>),
      Spaced(<< <<"write">>, <<"a">>, <<"parser">> >>),
      Spaced(<< <<"please">>, <<"tell">>, <<"me">>, <<"a">>, <<"short">>, <<"joke">>,
                <<"now">> >>),
      Spaced(<< <<"the">>, <<"class", "ifier">>, <<"needs">>, <<"a">>, <<"much">>,
                <<"larger">>, <<"corpus">> >>),
      Spaced(<< <<"the">>, <<"sorter">>, <<"needs">>, <<"a">>, <<"much">>,
                <<"larger">>, <<"corpus">> >>),
      Spaced(<< <<"plan">>, <<"the">>, <<"data">>, <<"for">>, <<"the">>, <<"next">>,
                <<"quarter">> >>),
      Spaced(<< <<"fix">>, <<"the">>, <<"bug">>, <<"then">>, <<"write">>, <<"and">>,
                <<"create">>, <<"a">>, <<"class">> >>),
      Spaced(<< <<"fix">>, <<"it">>, <<"and">>, <<"add">>, <<"a">>, <<"feature">>,
                <<"now">> >>),
      Spaced(<< <<"create">>, <<"a">>, <<"function">>, <<"for">>, <<"the">>,
                <<"dead", "line">>, <<"number">> >>),
      Spaced(<< <<"Why">>, <<"does">>, <<"the">>, <<"build">>, <<"fail">>, <<"on">>,
                <<"the">>, <<"server", "?">> >>),
      Spaced(<< <<"the">>, <<"stack">>, <<>>, <<"trace">>, <<"shows">>, <<"nothing">>,
                <<"useful">> >>) }

INTENTS ==
    << [mode |-> "debug", weight |-> 15,
        keywords |-> {<<"debug">>, <<"error">>, <<"bug">>, <<"fix">>, <<"crash">>,
                      <<"exception">>, <<"stack", "trace">>, <<"broken">>,
                      <<"runtime", "error">>, <<"segfault">>, <<"undefined">>},
        phrases |-> {<<"not", "working">>, <<"fix", "this", "bug">>,
                     <<"why", "is", "this", "broken">>, <<"line", "number">>}],
       [mode |-> "optimize", weight |-> 14,
        keywords |-> {<<"optimize">>, <<"performance">>, <<"slow">>, <<"fast">>,
                      <<"complexity">>, <<"bottleneck">>, <<"big", "o">>,
                      <<"latency">>, <<"efficient">>},
        phrases |-> {<<"make", "it", "faster">>, <<"run", "better">>, <<"speed", "up">>}],
       [mode |-> "data", weight |-> 13,
        keywords |-> {<<"data">>, <<"analysis">>, <<"stats">>, <<"csv">>, <<"json">>,
                      <<"explore">>, <<"clean">>, <<"visualize">>, <<"graph">>,
                      <<"plot">>, <<"statistic">>},
        phrases |-> {<<"analyze", "this", "data">>, <<"summarize", "the", "statistics">>}],
       [mode |-> "plan", weight |-> 13,
        keywords |-> {<<"plan">>, <<"architect">>, <<"roadmap">>, <<"outline">>,
                      <<"strategy">>, <<"structure">>, <<"organize">>, <<"architecture">>},
        phrases |-> {<<"how", "should", "i">>, <<"best", "approach">>,
                     <<"design", "a", "system">>, <<"module", "structure">>,
                     <<"breakdown", "the", "steps">>}],
       [mode |-> "reason", weight |-> 12,
        keywords |-> {<<"explain">>, <<"why">>, <<"compare">>, <<"analyze">>,
                      <<"understand">>, <<"logic">>, <<"tradeoff">>, <<"consequence">>},
        phrases |-> {<<"difference", "between">>, <<"pros", "and", "cons">>,
                     <<"what", "happens", "if">>, <<"how", "does", "this", "work">>}],
       [mode |-> "code", weight |-> 10,
        keywords |-> {<<"write">>, <<"create">>, <<"build">>, <<"implement">>, <<"code">>,
                      <<"function">>, <<"class">>, <<"refactor">>, <<"component">>, <<"api">>},
        phrases |-> {<<"add", "a", "feature">>, <<"new", "module">>,
                     <<"generate", "a", "test">>, <<"write", "a", "function">>}] >>

\* String.prototype.toLowerCase, on the tokens that have upper-case letters.
toLowerCase(text) ==
    [i \in 1..Len(text) |->
        CASE text[i] = "Why" -> "why"
          [] text[i] = "Fix" -> "fix"
          [] OTHER -> text[i]]

\* text.includes(part): the tokens of part occur in the text next to each other.
IncludesText(text, part) ==
    \E i \in 0..(Len(text) - Len(part)) : \A j \in 1..Len(part) : text[i + j] = part[j]

\* The string of a keyword or phrase: its words with one space between.
Literal(w) == Spaced([j \in 1..Len(w) |-> <<w[j]>>])

\* The first position from i on that holds no white space.
AfterSpaces(text, i) ==
    CHOOSE k \in i..(Len(text) + 1) :
        /\ k = Len(text) + 1 \/ ~ IsSpace(text[k])
        /\ \A m \in i..(k - 1) : IsSpace(text[m])

\* The rest of /\bw1\s+w2...\b/ matches with word j of the keyword at token i.
RECURSIVE MatchFrom(_, _, _, _)
MatchFrom(text, i, w, j) ==
    /\ i <= Len(text)
    /\ text[i] = w[j]
    /\ IF j = Len(w) THEN i = Len(text) \/ ~ IsWordToken(text[i + 1])
       ELSE LET k == AfterSpaces(text, i + 1)
            IN  k > i + 1 /\ MatchFrom(text, k, w, j + 1)

\* new RegExp(`\\b${keyword.replace(/ /g, '\\s+')}\\b`, 'i').test(prompt)
KeywordTest(text, w) ==
    \E i \in 1..Len(text) :
        /\ i = 1 \/ ~ IsWordToken(text[i - 1])
        /\ MatchFrom(toLowerCase(text), i, w, 1)

\* lowerPrompt.split(/\s+/).length
WordCount(text) ==
    Cardinality({i \in 1..Len(text) :
                    IsSpace(text[i]) /\ (i = 1 \/ ~ IsSpace(text[i - 1]))}) + 1

\* The keywords and the phrases of an intent that match the prompt.
MatchedKeywords(prompt, intent) == {k \in intent.keywords : KeywordTest(prompt, k)}

MatchedPhrases(prompt, intent) ==
    {p \in intent.phrases : IncludesText(toLowerCase(prompt), Literal(p))}

\* What the double that accumulates nk times the weight and then np times
\* weight * 1.5 differs by from the decimal sum, in units of 0.05 * 2^-50
\* (weights in tenths; 1.5 and 1.0 and their multiples are exact).
Rounding(weight, nk, np) ==
    LET high == << <<0, 4, 8>>, <<1, 0, 4>>, <<2, 16, 20>>, <<8, 12, 16>> >>
        low == << <<0, -8, -16>>, <<-2, -10, -8>>, <<-4, -12, -20>>, <<-16, -24, -32>> >>
    IN  CASE weight = 14 -> low[nk + 1][np + 1]
          [] weight = 13 -> high[nk + 1][np + 1]
          [] weight = 12 -> 0 - high[nk + 1][np + 1]
          [] OTHER -> 0

\* A score that counts a phrase like a keyword.
IntentScore_PhraseAsKeyword(prompt, intent) ==
    1000 * 2 * intent.weight
         * (Cardinality(MatchedKeywords(prompt, intent))
            + Cardinality(MatchedPhrases(prompt, intent)))

\* scores[intent.mode] after the two loops, as a double: the decimal sum in
\* twentieths (a phrase counts 1.5 times the weight) times 1000, plus what the
\* additions rounded.
IntentScore(prompt, intent) ==
    LET nk == Cardinality(MatchedKeywords(prompt, intent))
        np == Cardinality(MatchedPhrases(prompt, intent))
    IN  1000 * (2 * intent.weight * nk + 3 * intent.weight * np)
        + Rounding(intent.weight, nk, np)

\* Object.entries(scores): the order in which the scores are compared.
ScoreOrder == <<"debug", "plan", "reason", "code", "data", "optimize">>

IntentOf(m) == CHOOSE i \in 1..Len(INTENTS) : INTENTS[i].mode = m

\* The loop over the scores: a later mode replaces the best one only with a
\* strictly higher score.
RECURSIVE BestMode(_, _, _, _)
BestMode(prompt, i, bestMode, maxScore) ==
    IF i > Len(ScoreOrder) THEN bestMode
    ELSE LET s == IntentScore(prompt, INTENTS[IntentOf(ScoreOrder[i])])
         IN  IF s > maxScore THEN BestMode(prompt, i + 1, ScoreOrder[i], s)
             ELSE BestMode(prompt, i + 1, bestMode, maxScore)

\* A classifier without the rule for short inputs.
classifyIntent_NoShortRule(prompt) ==
    IF \A i \in 1..Len(INTENTS) :
          MatchedKeywords(prompt, INTENTS[i]) \cup MatchedPhrases(prompt, INTENTS[i]) = {}
    THEN "reason"
    ELSE BestMode(prompt, 1, "code", -20000)

\* classifyIntent(prompt): the short-input test looks for the code keywords
\* with includes, the scoring for all keywords with the word-boundary regex.
classifyIntent(prompt) ==
    LET codeKeywords == INTENTS[IntentOf("code")].keywords
        isCodeAsking ==
            \E k \in codeKeywords : IncludesText(toLowerCase(prompt), Literal(k))
        hasMatch ==
            \E i \in 1..Len(INTENTS) :
                MatchedKeywords(prompt, INTENTS[i]) \cup MatchedPhrases(prompt, INTENTS[i])
                    # {}
    IN  IF WordCount(prompt) < 6 /\ ~ isCodeAsking THEN "reason"
        ELSE IF ~ hasMatch THEN "reason"
        ELSE BestMode(prompt, 1, "code", -20000)

\* A router that looks at the mode before it looks at the lock.
route_ModeBeforeLock(prompt, sMode, sModel, sOverride) ==
    IF sMode # "auto" THEN
        [model |-> getDefaultModel(sMode), mode |-> sMode, routed |-> FALSE]
    ELSE IF sOverride /\ sModel # "" THEN
        [model |-> sModel, mode |-> sMode, routed |-> FALSE]
    ELSE
        [model |-> getDefaultModel(classifyIntent(prompt)),
         mode |-> classifyIntent(prompt), routed |-> TRUE]

\* route(prompt) in the session state (sMode, sModel, sOverride).
route(prompt, sMode, sModel, sOverride) ==
    IF sOverride /\ sModel # "" THEN
        [model |-> sModel, mode |-> sMode, routed |-> FALSE]
    ELSE IF sMode # "auto" THEN
        [model |-> getDefaultModel(sMode), mode |-> sMode, routed |-> FALSE]
    ELSE
        [model |-> getDefaultModel(classifyIntent(prompt)),
         mode |-> classifyIntent(prompt), routed |-> TRUE]

\* ------------------------------------------------------------------- memory
UserTurn(content) ==
    [role |-> "user", content |-> content, tool_calls |-> <<>>, tool_call_id |-> ""]

AssistantTurn(content, toolCalls) ==
    [role |-> "assistant", content |-> content, tool_calls |-> toolCalls,
     tool_call_id |-> ""]

\* A tool turn that loses the id of the invocation it answers.
ToolTurn_NoId(toolCallId, content) ==
    [role |-> "tool", content |-> content, tool_calls |-> <<>>,
     tool_call_id |-> ""]

ToolTurn(toolCallId, content) ==
    [role |-> "tool", content |-> content, tool_calls |-> <<>>,
     tool_call_id |-> toolCallId]

SystemPrompt == <<"system", "prompt">>

\* A trim that drops the newest messages instead of the oldest.
Trim_KeepsOldest(h) ==
    IF Len(h) > MAX_MESSAGES THEN SubSeq(h, 1, MAX_MESSAGES) ELSE h

\* _trim: shift the oldest message while there are more than MAX_MESSAGES.
Trim(h) ==
    IF Len(h) > MAX_MESSAGES THEN SubSeq(h, Len(h) - MAX_MESSAGES + 1, Len(h)) ELSE h

addUser(h, content) == Trim(Append(h, UserTurn(content)))

addAssistant(h, content, toolCalls) == Trim(Append(h, AssistantTurn(content, toolCalls)))

addToolResult(h, toolCallId, content) == Trim(Append(h, ToolTurn(toolCallId, content)))

\* JSON.stringify(m.tool_calls).length
ToolCallsChars(toolCalls) == Len(toolCalls) * 8 * WordLen

RECURSIVE HistoryChars(_)
HistoryChars(h) ==
    IF h = <<>> THEN 0
    ELSE SumLen(Head(h).content) + ToolCallsChars(Head(h).tool_calls)
         + HistoryChars(Tail(h))

getTokenEstimate(h) ==
    (SumLen(SystemPrompt) + HistoryChars(h) + CHARS_PER_TOKEN - 1) \div CHARS_PER_TOKEN

PrunedMarker(n) ==
    UserTurn(<<"...", "(system:", ToString(n), "messages pruned for context efficiency)",
               "...">>)

\* A prune that keeps the newest turns only.
prune_DropsOldest(h) ==
    IF Len(h) < MinPruneLen THEN h
    ELSE <<PrunedMarker(Len(h) - Len(h) \div 2)>>
         \o SubSeq(h, Len(h) - Len(h) \div 2 + 1, Len(h))

\* prune(0.5)
prune(h) ==
    IF Len(h) < MinPruneLen THEN h
    ELSE LET keepCount == Len(h) \div 2
             recentToKeep == (keepCount + 1) \div 2
             oldestToKeep == keepCount - recentToKeep
         IN  SubSeq(h, 1, oldestToKeep)
             \o <<PrunedMarker(Len(h) - keepCount)>>
             \o SubSeq(h, Len(h) - recentToKeep + 1, Len(h))

\* compressor.js: the lengths and counts compressContent and compressHistory
\* compare with.
CompressMinChars == 500
TruncateMinChars == 2000
TruncateMinLines == 50
KeepLines == 10
RecentUncompressed == 3

CompressedMarker == "... [Compressed by ZayCode Mastermind] ..."

IsKept(c) == c # ""

\* compressed.replace(/\n{3,}/g, '\n\n')
CollapseNewlines(content) ==
    SelectSeq([i \in 1..Len(content) |->
                 IF i > 2 /\ content[i] = "\n" /\ content[i - 1] = "\n"
                    /\ content[i - 2] = "\n"
                 THEN "" ELSE content[i]],
              IsKept)

NewlinesIn(content) == {i \in 1..Len(content) : content[i] = "\n"}

\* compressed.split('\n').length
LineCount(content) == Cardinality(NewlinesIn(content)) + 1

\* lines.slice(0, k).join('\n'), of a content of more than k lines
HeadLines(content, k) ==
    LET nl == NewlinesIn(content)
        p == CHOOSE q \in nl : Cardinality({r \in nl : r <= q}) = k
    IN  SubSeq(content, 1, p - 1)

\* lines.slice(-k).join('\n'), of a content of more than k lines
TailLines(content, k) ==
    LET nl == NewlinesIn(content)
        p == CHOOSE q \in nl : Cardinality({r \in nl : r >= q}) = k
    IN  SubSeq(content, p + 1, Len(content))

\* A compression that cuts long contents whether or not they report an error.
compressContent_CutsErrors(content) ==
    IF content = <<>> \/ SumLen(content) < CompressMinChars THEN content
    ELSE LET compressed == CollapseNewlines(content)
         IN  IF SumLen(compressed) > TruncateMinChars
                /\ LineCount(compressed) > TruncateMinLines
             THEN HeadLines(compressed, KeepLines)
                  \o <<"\n", "\n", CompressedMarker, "\n", "\n">>
                  \o TailLines(compressed, KeepLines)
             ELSE compressed

compressContent(content) ==
    IF content = <<>> \/ SumLen(content) < CompressMinChars THEN content
    ELSE LET compressed == CollapseNewlines(content)
         IN  IF SumLen(compressed) > TruncateMinChars
                /\ ~Includes(compressed, "Error:")
                /\ LineCount(compressed) > TruncateMinLines
             THEN HeadLines(compressed, KeepLines)
                  \o <<"\n", "\n", CompressedMarker, "\n", "\n">>
                  \o TailLines(compressed, KeepLines)
             ELSE compressed

\* compressHistory: the messages before the last three that are neither user
\* prompts nor tool errors get a compressed content, in a new object.
compressHistory(h) ==
    [i \in 1..Len(h) |->
        IF i > Len(h) - RecentUncompressed THEN h[i]
        ELSE IF h[i].role = "user"
                \/ (h[i].role = "tool" /\ Includes(h[i].content, "Error:"))
             THEN h[i]
             ELSE [h[i] EXCEPT !.content = compressContent(@)]]

SystemTurn ==
    [role |-> "system", content |-> SystemPrompt, tool_calls |-> <<>>,
     tool_call_id |-> ""]

\* A getMessages that compresses the stored messages themselves.
getMessages_InPlace(h) ==
    LET compressed == compressHistory(h)
    IN  [stored |-> compressed, messages |-> <<SystemTurn>> \o compressed]

\* getMessages: the system prompt and the compressed copies of the stored
\* messages; `stored` is the list the memory holds when it returns.
getMessages(h) ==
    LET copies == [i \in 1..Len(h) |-> h[i]]
    IN  [stored |-> h, messages |-> <<SystemTurn>> \o compressHistory(copies)]

\* ------------------------------------------------------------ persistence
\* JSON text is modelled as the list of its objects, an object as the list of
\* its <<key, value>> members in insertion order, a string as its tokens with
\* the line feeds escaped.
Escape(tok) == IF tok = "\n" THEN "\\n" ELSE tok

Unescape(tok) == IF tok = "\\n" THEN "\n" ELSE tok

\* A serialisation that loses the tool calls of an assistant message.
stringifyTurn_DropsToolCalls(m) ==
    IF m.role = "tool" THEN
        << <<"role", m.role>>, <<"tool_call_id", m.tool_call_id>>,
           <<"content", [i \in 1..Len(m.content) |-> Escape(m.content[i])]>> >>
    ELSE
        << <<"role", m.role>>,
           <<"content", [i \in 1..Len(m.content) |-> Escape(m.content[i])]>> >>

\* JSON.stringify of one message: the members the object has. addAssistant
\* sets tool_calls only for a non-empty list, addToolResult sets tool_call_id.
stringifyTurn(m) ==
    IF m.role = "tool" THEN
        << <<"role", m.role>>, <<"tool_call_id", m.tool_call_id>>,
           <<"content", [i \in 1..Len(m.content) |-> Escape(m.content[i])]>> >>
    ELSE
        << <<"role", m.role>>,
           <<"content", [i \in 1..Len(m.content) |-> Escape(m.content[i])]>> >>
        \o (IF m.tool_calls # <<>> THEN << <<"tool_calls", m.tool_calls>> >>
            ELSE <<>>)

\* JSON.stringify(this._messages, null, 2)
JSON_stringify(h) == [i \in 1..Len(h) |-> stringifyTurn(h[i])]

HasMember(object, key) == \E i \in 1..Len(object) : object[i][1] = key

Member(object, key) ==
    object[CHOOSE i \in 1..Len(object) : object[i][1] = key][2]

\* JSON.parse of one message; a member the text lacks is absent in the object.
parseTurn(object) ==
    [role |-> Member(object, "role"),
     content |-> LET c == Member(object, "content")
                 IN  [i \in 1..Len(c) |-> Unescape(c[i])],
     tool_calls |-> IF HasMember(object, "tool_calls")
                    THEN Member(object, "tool_calls") ELSE <<>>,
     tool_call_id |-> IF HasMember(object, "tool_call_id")
                      THEN Member(object, "tool_call_id") ELSE ""]

\* JSON.parse(fs.readFileSync(file, 'utf8'))
JSON_parse(text) == [i \in 1..Len(text) |-> parseTurn(text[i])]

\* Whether JSON.parse accepts the text of a history file: every member of
\* every object has its key and its value.
IsJson(text) ==
    \A i \in 1..Len(text) : \A j \in 1..Len(text[i]) : Len(text[i][j]) = 2

\* The session ids history files are named after.
SessionIds == {"s1", "s2", "s3", "s4"}

NoFile == [exists |-> FALSE, text |-> <<>>]

\* A save that never overwrites the file of a session.
saveToDisk_OnlyNewFile(files, saveHist, sid, h) ==
    IF ~saveHist \/ sid = "" \/ files[sid].exists THEN files
    ELSE [files EXCEPT ![sid] = [exists |-> TRUE, text |-> JSON_stringify(h)]]

\* _saveToDisk: nothing when saving is switched off or no session id is set,
\* else the file of the session is written with the messages.
saveToDisk(files, saveHist, sid, h) ==
    IF ~saveHist \/ sid = "" THEN files
    ELSE [files EXCEPT ![sid] = [exists |-> TRUE, text |-> JSON_stringify(h)]]

\* A file that was cut short while it was written: the text ends after the
\* key of a member.
CutShort(text) == SubSeq(text, 1, Len(text) - 1) \o << << <<"role">> >> >>

\* loadFromDisk(sessionId) of a memory that holds the messages h: whether it
\* returned true, the messages the memory holds afterwards, and whether the
\* call threw. The messages are assigned only after JSON.parse has returned;
\* what JSON.parse throws is caught, and the call returns false.
loadFromDisk(files, id, h) ==
    IF files[id].exists /\ IsJson(files[id].text)
    THEN [found |-> TRUE, messages |-> JSON_parse(files[id].text), threw |-> FALSE]
    ELSE [found |-> FALSE, messages |-> h, threw |-> FALSE]

\* The contents the memory is exercised with: outputs of LongLines numbered
\* lines after a large first line, with and without the error marker, an
\* answer with runs of blank lines, and short ones.
NumberedLines(k) ==
    [i \in 1..(2 * k - 1) |-> IF i % 2 = 1 THEN ToString((i + 1) \div 2) ELSE "\n"]

LongOutput == <<"BIG", "\n">> \o NumberedLines(LongLines)

LongErrorOutput == <<"Error:", "BIG", "\n">> \o NumberedLines(LongLines)

LongAnswerWithError ==
    <<"BIG", "\n", "\n", "\n", "\n", "Error:", "\n">> \o NumberedLines(LongLines)

MediumAnswer == <<"a", "\n", "\n", "\n", "\n">> \o NumberedLines(LongLines + 5)

ShortAnswer == <<"a", "\n", "\n", "\n", "b">>

PatternCalls ==
    << [id |-> "c1", name |-> "run_shell", arguments |-> "{}"],
       [id |-> "c2", name |-> "read_file", arguments |-> "{}"] >>

TurnPattern ==
    << UserTurn(<<"fix", "the", "failing", "test">>),
       AssistantTurn(<<>>, PatternCalls),
       ToolTurn("c1", LongOutput),
       ToolTurn("c2", LongErrorOutput),
       AssistantTurn(LongAnswerWithError, <<>>),
       UserTurn(LongOutput),
       AssistantTurn(MediumAnswer, <<>>),
       ToolTurn("c3", <<"ok">>),
       AssistantTurn(LongOutput, <<>>),
       AssistantTurn(ShortAnswer, <<>>) >>

\* The first n turns of a conversation that repeats TurnPattern.
Pattern(n) == [i \in 1..n |-> TurnPattern[((i - 1) % Len(TurnPattern)) + 1]]

HistoryLengths == {0, 9, 10, 11, 13, MAX_MESSAGES - 1, MAX_MESSAGES}

\* The stored histories a session can have reached: conversations of the
\* lengths above, and one that was pruned and has grown again since.
Histories ==
    {Pattern(n) : n \in HistoryLengths}
    \cup {prune(Pattern(MinPruneLen)) \o SubSeq(Pattern(8), 3, 8)}

\* ----------------------------------------------------------------- executor
\* Object.keys(TOOL_HANDLERS) after _registerBuiltins, in insertion order (the
\* tools the model uses, of the 27 registered).
ToolNames == <<"read_file", "write_file", "edit_file", "list_files", "run_shell",
               "apply_diff">>

\* TOOL_HANDLERS after _registerBuiltins: the names in insertion order, each
\* with the identity of its handler.
Builtins == [i \in 1..Len(ToolNames) |-> [name |-> ToolNames[i], handler |-> "builtin"]]

\* Object.keys(handlers): the own properties. An assignment to the key
\* __proto__ creates none: it replaces the prototype of the object, which the
\* model keeps as the entry of that name.
Keys(handlers) ==
    LET own == SelectSeq(handlers, LAMBDA e : e.name # "__proto__")
    IN  [i \in 1..Len(own) |-> own[i].name]

\* The properties every object literal inherits, of which the model uses a
\* function and a value that is not a function.
ObjectPrototype == [constructor |-> "Object", __proto__ |-> "Object.prototype"]

\* What an object inherits instead once a function is its prototype.
FunctionPrototype == [constructor |-> "Function"]

\* TOOL_HANDLERS[name]: the handler registered under the name, else the
\* inherited property of that name, else "" (undefined).
Lookup(handlers, name) ==
    IF \E i \in 1..Len(handlers) : handlers[i].name = name
    THEN handlers[CHOOSE i \in 1..Len(handlers) : handlers[i].name = name].handler
    ELSE IF name \in DOMAIN FunctionPrototype
            /\ \E i \in 1..Len(handlers) : handlers[i].name = "__proto__"
    THEN FunctionPrototype[name]
    ELSE IF name \in DOMAIN ObjectPrototype THEN ObjectPrototype[name]
    ELSE ""

\* What a call of a handler does: it returns a value, throws, or returns a
\* promise that rejects, with an Error of the given message.
Returns(value) == [kind |-> "returns", value |-> value, message |-> <<>>]

Throws(kind, message) == [kind |-> kind, value |-> <<>>, message |-> message]

\* The handler call of execute: Object(args) returns its argument, and a value
\* that is not a function cannot be called.
CallHandler(handler, outcome) ==
    IF handler = "Object" THEN Returns(<<"{}">>)
    ELSE IF handler = "Function"
    THEN Throws("throws", <<"Unexpected identifier">>)
    ELSE IF handler = "Object.prototype"
    THEN Throws("throws", <<"handler is not a function">>)
    ELSE outcome

\* An execute that loses the message of the error it catches.
execute_LosesMessage(handlers, name, outcome) ==
    LET handler == Lookup(handlers, name)
        done == CallHandler(handler, outcome)
    IN  IF handler = "" THEN
            [success |-> FALSE, result |-> <<>>,
             error |-> <<"Unknown tool:", name, "Available tools:">> \o Keys(handlers)]
        ELSE IF done.kind # "returns" THEN
            [success |-> FALSE, result |-> <<>>, error |-> <<"Tool", name, "failed:">>]
        ELSE
            [success |-> TRUE, result |-> done.value, error |-> <<>>]

\* execute({name, arguments}); outcome: what the registered handler does on
\* this call. A result of <<>> is null.
execute(handlers, name, outcome) ==
    LET handler == Lookup(handlers, name)
        done == CallHandler(handler, outcome)
    IN  IF handler = "" THEN
            [success |-> FALSE, result |-> <<>>,
             error |-> <<"Unknown tool:", name, "Available tools:">> \o Keys(handlers)]
        ELSE IF done.kind # "returns" THEN
            [success |-> FALSE, result |-> <<>>,
             error |-> <<"Tool", name, "failed:">> \o done.message]
        ELSE
            [success |-> TRUE, result |-> done.value, error |-> <<>>]

\* registerTool(name, handler): a handler that is not a function is refused;
\* a name already registered keeps its place in the key order.
\* typeof handler !== 'function': registerTool throws
registerToolThrows(handler) == handler = "not a function"

registerTool(handlers, name, handler) ==
    IF handler = "not a function" THEN handlers
    ELSE IF \E i \in 1..Len(handlers) : handlers[i].name = name
    THEN [i \in 1..Len(handlers) |->
            IF handlers[i].name = name THEN [name |-> name, handler |-> handler]
            ELSE handlers[i]]
    ELSE Append(handlers, [name |-> name, handler |-> handler])

\* The names execute is called with, the names and handlers registerTool is
\* called with, and what a handler does.
ExecuteNames == {"read_file", "run_shell", "my_tool", "no_such_tool", "constructor",
                 "__proto__"}

RegisterNames == {"my_tool", "read_file", "__proto__"}

RegisterHandlers == {"h1", "h2", "not a function"}

\* What a handler does: it returns a value (a plain one, the object of
\* mcp_call_tool that reports success: false, the result of run_shell for a
\* command that left with exit code 1), it throws, or it rejects.
Outcomes ==
    { Returns(<<"ok">>),
      Returns(<<"success:", "false", "error:", "MCP tool execution requires">>),
      Returns(<<"stdout:", "", "exitCode:", "1", "error:", "Command failed">>),
      Throws("throws", <<"ENOENT: no such file">>),
      Throws("rejects", <<"command timed out">>) }

NoCall == [name |-> "", outcome |-> Returns(<<>>), keys |-> <<>>, handler |-> ""]

VARIABLES
    TOOL_HANDLERS,  \* the registry
    execResult,     \* what the last execute resolved with
    lastCall,       \* the last execute: name, outcome of the handler, the keys
                    \* of the registry and the handler found at the call
    registerCalls,  \* registerTool calls made
    registrations   \* the last registerTool call, and per name the handler of
                    \* the last registerTool call that returned

execVars == <<TOOL_HANDLERS, execResult, lastCall, registerCalls, registrations>>

Registered(name) ==
    \E i \in 1..Len(TOOL_HANDLERS) : TOOL_HANDLERS[i].name = name

NoRegistrations ==
    [name |-> "", handler |-> "", threw |-> FALSE,
     latest |-> [n \in RegisterNames |-> ""]]

ExecIdle ==
    /\ TOOL_HANDLERS = Builtins
    /\ execResult = [success |-> FALSE, result |-> <<>>, error |-> <<>>]
    /\ lastCall = NoCall
    /\ registerCalls = 0
    /\ registrations = NoRegistrations

\* -------------------------------------------------------------------- agent
CRITICAL_TOOLS == {"write_file", "edit_file", "apply_diff", "run_shell"}

maxAttempts(toolName) ==
    IF toolName \in CRITICAL_TOOLS THEN MaxAttemptsCritical ELSE 1

\* The argument strings JSON.parse accepts, of those the model uses.
JsonParses(text) == text \in {"{}", "{\"path\":\".\"}"}

IsCapacityError(message) ==
    Includes(message, "402") \/ Includes(message, "429")
    \/ Includes(message, "Insufficient")

fallbackModel(m) ==
    IF m = "plan" \/ m = "reason" THEN "meta-llama/llama-3.3-70b-instruct:free"
    ELSE IF m = "code" THEN "qwen/qwen3-coder:free"
    ELSE "mistralai/mistral-small-3.1-24b-instruct:free"

\* `const { model, mode, routed } = router.route(prompt)`: the binding that
\* `model = fallbackModel` assigns to is a constant.
ModelBindingIsConst == TRUE

TypeErrorConst == <<"TypeError:", "Assignment to constant variable.">>

SyntaxErrorJson == <<"SyntaxError:", "Unexpected end of JSON input">>

ToolContent(result) ==
    IF result.success THEN result.result ELSE <<"Error:">> \o result.error

\* What a handler returns when it does not throw: run_shell the output of a
\* command that printed a log and left with exit code 0, the others a short
\* value.
ShellOutput == <<"stdout:", "Error:", "disk", "full", "exitCode:", "0">>

HandlerValue(name) == IF name = "run_shell" THEN ShellOutput ELSE <<"ok">>

\* The category of the self-correction instruction; a later test overrides
\* an earlier one.
nudgeType(error) ==
    IF Includes(error, "SyntaxError") \/ Includes(error, "mismatch") THEN "PRECISION"
    ELSE IF Includes(error, "Permission denied") \/ Includes(error, "EACCES")
    THEN "SAFETY"
    ELSE IF Includes(error, "not found") \/ Includes(error, "no such file")
    THEN "CONTEXT"
    ELSE "GENERAL"

\* The instruction turn of the self-correction injection.
correctionNudge(error) ==
    UserTurn(<<"[PRO SELF-CORRECTION:", nudgeType(error), "]", "\n", "Error details:">>
             \o error \o <<"\n", "MANDATORY:">>)

\* Steps 2 and 3 of an iteration: the messages of getMessages(), and after
\* them the instruction turn when the last stored turn is a tool turn whose
\* content includes 'Error:'.
MessagesForApi(h, iterations) ==
    LET messages == getMessages(h).messages
    IN  IF /\ iterations > 1
           /\ Len(h) > 0
           /\ Last(h).role = "tool"
           /\ Includes(Last(h).content, "Error:")
        THEN Append(messages, correctionNudge(Last(h).content))
        ELSE messages

\* ---------------------------------------------------------- stream decoder
\* The bytes of the transport are one string each; "xC3" "xA9" are the two
\* bytes of the character U+00E9. A decoded text is a sequence of characters,
\* "uE9" being U+00E9 and "uFFFD" the replacement character.
Prefix == <<"d", "a", "t", "a", ":">>

Sentinel == <<"[", "D", "O", "N", "E", "]">>

\* The lines of the model: text deltas (ASCII, and a two-byte character),
\* tool-call deltas (index, id, name fragment, argument fragment; "-" for an
\* absent field; two deltas in one event), the sentinel, an event separator,
\* a comment line, a payload that is not JSON, a payload without choices.
Lines ==
    { Prefix \o <<" ", "{", "t", "a", "}">>,
      Prefix \o <<" ", "{", "t", "xC3", "xA9", "}">>,
      Prefix \o <<" ", "{", "k", "0", "i", "r", "-", "}">>,
      Prefix \o <<"{", "k", "0", "-", "s", "b", "k", "2", "j", "w", "c", "}">>,
      Prefix \o <<" ">> \o Sentinel,
      <<>>,
      <<":", "o", "k">>,
      Prefix \o <<" ", "{", "t", "a">>,
      Prefix \o <<" ", "{", "}">> }

RECURSIVE Join(_)
Join(ls) == IF ls = <<>> THEN <<>> ELSE Head(ls) \o <<"\n">> \o Join(Tail(ls))

\* Streams in which a payload line and a line that is not interpretable follow
\* the sentinel.
TailWires ==
    { Join(<< Prefix \o <<" ", "{", "k", "0", "i", "r", "-", "}">>,
              Prefix \o <<" ">> \o Sentinel,
              Prefix \o <<"{", "k", "0", "-", "s", "b", "k", "2", "j", "w", "c", "}">>,
              l >>) :
        l \in { <<":", "o", "k">>, Prefix \o <<" ", "{", "t", "a">>,
                Prefix \o <<" ", "{", "}">> } }

\* The streams a transport may deliver: up to MaxLines lines, the last one
\* with or without its line end, and the streams of TailWires.
Wires ==
    TailWires \cup
    UNION { { Join(ls) : ls \in [1..n -> Lines] } : n \in 1..MaxLines }
    \cup UNION { { SubSeq(Join(ls), 1, Len(Join(ls)) - 1) : ls \in [1..n -> Lines] } :
                 n \in 1..MaxLines }

\* chunk.toString('utf8'): each chunk is decoded on its own, so a byte
\* sequence cut by the chunk boundary decodes to U+FFFD.
IsDecoded(c) == c # ""

Utf8(bytes) ==
    LET n == Len(bytes)
        char(i) ==
            IF bytes[i] = "xC3" THEN
                (IF i < n /\ bytes[i + 1] = "xA9" THEN "uE9" ELSE "uFFFD")
            ELSE IF bytes[i] = "xA9" THEN
                (IF i > 1 /\ bytes[i - 1] = "xC3" THEN "" ELSE "uFFFD")
            ELSE bytes[i]
    IN  SelectSeq([i \in 1..n |-> char(i)], IsDecoded)

RECURSIVE TrimLeft(_)
TrimLeft(t) == IF t # <<>> /\ IsSpace(Head(t)) THEN TrimLeft(Tail(t)) ELSE t

RECURSIVE TrimRight(_)
TrimRight(t) ==
    IF t # <<>> /\ IsSpace(t[Len(t)]) THEN TrimRight(SubSeq(t, 1, Len(t) - 1)) ELSE t

StrTrim(t) == TrimRight(TrimLeft(t))

StartsWith(t, p) == Len(t) >= Len(p) /\ SubSeq(t, 1, Len(p)) = p

\* buffer.indexOf('\n'), from 1; 0 when there is none.
IndexOfNewline(t) ==
    IF \E i \in 1..Len(t) : t[i] = "\n"
    THEN CHOOSE i \in 1..Len(t) : t[i] = "\n" /\ \A j \in 1..(i - 1) : t[j] # "\n"
    ELSE 0

Field(c) == IF c = "-" THEN <<>> ELSE <<c>>

\* The tool-call deltas of the body of a tool event, five characters each.
RECURSIVE ToolDeltas(_)
ToolDeltas(body) ==
    IF body = <<>> THEN <<>>
    ELSE << [index |-> CASE body[2] = "0" -> 0 [] body[2] = "1" -> 1 [] OTHER -> 2,
             id |-> Field(body[3]), name |-> Field(body[4]),
             arguments |-> Field(body[5])] >>
         \o ToolDeltas(SubSeq(body, 6, Len(body)))

WellFormedToolBody(body) ==
    /\ Len(body) % 5 = 0
    /\ \A i \in 1..Len(body) :
        /\ (i % 5 = 1) => body[i] = "k"
        /\ (i % 5 = 2) => body[i] \in {"0", "1", "2"}
        /\ body[i] \notin {"{", "}"}

\* JSON.parse(data) and the fields the decoder reads: ok is false where
\* JSON.parse throws; an event without choices has hasChoice false.
ParseEvent(data) ==
    LET body == SubSeq(data, 2, Len(data) - 1)
        none == [ok |-> FALSE, hasChoice |-> FALSE, content |-> <<>>, deltas |-> <<>>]
    IN  IF Len(data) < 2 \/ data[1] # "{" \/ data[Len(data)] # "}" THEN none
        ELSE IF body = <<>> THEN [none EXCEPT !.ok = TRUE]
        ELSE IF body[1] = "t" /\ \A i \in 1..Len(body) : body[i] \notin {"{", "}"} THEN
            [ok |-> TRUE, hasChoice |-> TRUE, content |-> Tail(body), deltas |-> <<>>]
        ELSE IF body[1] = "k" /\ WellFormedToolBody(body) THEN
            [ok |-> TRUE, hasChoice |-> TRUE, content |-> <<>>,
             deltas |-> ToolDeltas(body)]
        ELSE none

EmptySlot == [id |-> <<>>, name |-> <<>>, arguments |-> <<>>]

\* `while (toolCalls.length <= idx) toolCalls.push({...})`
RECURSIVE FillSlots(_, _)
FillSlots(tools, idx) ==
    IF Len(tools) <= idx THEN FillSlots(Append(tools, EmptySlot), idx) ELSE tools

\* A delta that replaces the name and the arguments of its slot.
ApplyDelta_Overwrite(tools, tc) ==
    LET filled == FillSlots(tools, tc.index)
        i == tc.index + 1
    IN  [filled EXCEPT ![i] =
            [id |-> IF tc.id # <<>> THEN tc.id ELSE @.id,
             name |-> tc.name,
             arguments |-> tc.arguments]]

\* One tool-call delta: the slot is created if needed, the id is set, the
\* name and the arguments are appended to.
ApplyDelta(tools, tc) ==
    LET filled == FillSlots(tools, tc.index)
        i == tc.index + 1
    IN  [filled EXCEPT ![i] =
            [id |-> IF tc.id # <<>> THEN tc.id ELSE @.id,
             name |-> @.name \o tc.name,
             arguments |-> @.arguments \o tc.arguments]]

RECURSIVE ApplyDeltas(_, _)
ApplyDeltas(tools, deltas) ==
    IF deltas = <<>> THEN tools
    ELSE ApplyDeltas(ApplyDelta(tools, Head(deltas)), Tail(deltas))

\* The decoder of one response: the line buffer, the accumulators, the
\* promise, and what the caller and the callback have seen.
NewDecoder ==
    [buffer |-> <<>>, text |-> <<>>, toolsNull |-> TRUE, tools |-> <<>>,
     settled |-> "pending", resText |-> <<>>, resToolsNull |-> TRUE,
     deltas |-> <<>>, events |-> <<>>, doneSeen |-> FALSE,
     error |-> [status |-> 0, text |-> <<>>]]

\* resolve({ text: assistantText, toolCalls }): the first call settles the
\* promise; the result holds the text as it is and the list by reference.
Resolve(d) ==
    IF d.settled # "pending" THEN d
    ELSE [d EXCEPT !.settled = "resolved", !.resText = d.text,
                   !.resToolsNull = d.toolsNull]

\* reject(err): the first call settles the promise.
Reject(d, err) ==
    IF d.settled # "pending" THEN d
    ELSE [d EXCEPT !.settled = "rejected", !.error = [status |-> 0, text |-> err]]

\* The body of the try block for one parsed payload.
ApplyEvent(d, ev) ==
    IF ~ev.ok \/ ~ev.hasChoice THEN d
    ELSE [d EXCEPT
            !.text = @ \o ev.content,
            !.deltas = IF ev.content # <<>> THEN Append(@, ev.content) ELSE @,
            !.toolsNull = @ /\ ev.deltas = <<>>,
            !.tools = ApplyDeltas(@, ev.deltas),
            !.events = Append(@, ev)]

\* The `while (true)` loop of the data handler over the complete lines of
\* the buffer; the sentinel resolves and returns from the handler.
RECURSIVE ProcessLines(_)
ProcessLines(d) ==
    LET boundary == IndexOfNewline(d.buffer)
        line == StrTrim(SubSeq(d.buffer, 1, boundary - 1))
        rest == [d EXCEPT !.buffer = SubSeq(d.buffer, boundary + 1, Len(d.buffer))]
        data == StrTrim(SubSeq(line, Len(Prefix) + 1, Len(line)))
    IN  IF boundary = 0 THEN d
        ELSE IF line = <<>> THEN ProcessLines(rest)
        ELSE IF ~StartsWith(line, Prefix) THEN ProcessLines(rest)
        ELSE IF data = Sentinel THEN Resolve([rest EXCEPT !.doneSeen = TRUE])
        ELSE ProcessLines(ApplyEvent(rest, ParseEvent(data)))

\* res.on('data')
OnData(d, chunk) == ProcessLines([d EXCEPT !.buffer = @ \o Utf8(chunk)])

\* An end handler that leaves the promise as it is.
OnEnd_NoResolve(d) == d

\* res.on('end')
OnEnd(d) == Resolve(d)

\* The tool-call list the caller holds: null, or the list the decoder still
\* appends to.
ResultTools(d) == IF d.resToolsNull THEN <<>> ELSE d.tools

VARIABLES
    wire,       \* the bytes the transport delivers
    pos,        \* the bytes delivered so far
    ended,      \* the transport has ended
    dec,        \* the decoder
    clean,      \* a decoder that is given the same chunks without the lines
                \* that are not interpretable
    malformed,  \* the positions of the bytes of those lines in the stream
    statusCode, \* res.statusCode (0: no response)
    closedBy    \* the event the transport ended with ("": none)

streamVars == <<wire, pos, ended, dec, clean, malformed, statusCode, closedBy>>

StreamIdle ==
    /\ statusCode = 0
    /\ wire = <<>>
    /\ pos = 0
    /\ ended = FALSE
    /\ closedBy = ""
    /\ dec = NewDecoder
    /\ clean = NewDecoder
    /\ malformed = {}

\* The complete lines of the stream from byte `from`: the positions of the
\* first byte and of the line end of each.
RECURSIVE LineSpans(_, _)
LineSpans(bytes, from) ==
    LET b == IndexOfNewline(SubSeq(bytes, from, Len(bytes)))
    IN  IF b = 0 THEN <<>>
        ELSE << <<from, from + b - 1>> >> \o LineSpans(bytes, from + b)

\* A line that is not interpretable: no 'data:' prefix, a payload that is not
\* JSON, a payload without choices.
IsMalformedLine(lineBytes) ==
    LET line == StrTrim(Utf8(lineBytes))
        data == StrTrim(SubSeq(line, Len(Prefix) + 1, Len(line)))
    IN  /\ line # <<>>
        /\ \/ ~StartsWith(line, Prefix)
           \/ /\ data # Sentinel
              /\ ~(ParseEvent(data).ok /\ ParseEvent(data).hasChoice)

\* The positions of the bytes of the lines that are not interpretable.
MalformedBytes(bytes) ==
    LET spans == LineSpans(bytes, 1)
    IN  UNION { spans[k][1]..spans[k][2] :
                  k \in { j \in 1..Len(spans) :
                            IsMalformedLine(SubSeq(bytes, spans[j][1],
                                                   spans[j][2] - 1)) } }

RECURSIVE KeepBytes(_, _, _, _)
KeepBytes(bytes, drop, from, to) ==
    IF from > to THEN <<>>
    ELSE (IF from \in drop THEN <<>> ELSE <<bytes[from]>>)
         \o KeepBytes(bytes, drop, from + 1, to)

\* The bytes from..to of the stream without those lines.
WithoutMalformed(from, to) == KeepBytes(wire, malformed, from, to)

StreamInit ==
    /\ statusCode = 200
    /\ wire \in Wires
    /\ pos = 0
    /\ ended = FALSE
    /\ closedBy = ""
    /\ dec = NewDecoder
    /\ clean = NewDecoder
    /\ malformed = MalformedBytes(wire)

\* ------------------------------------------------- responses of other status
\* The status codes of the model other than 200.
ErrorStatuses == {401, 429, 500}

\* The bodies of such responses, as bytes: JSON with error.message ("{" "m"
\* message "}"), JSON without it ("{" "}"), text that is not JSON, of which
\* one longer than ErrorBodyMax, and the empty body.
ErrorBodies ==
    { <<"{", "m", "R", "a", "t", "e", " ", "l", "i", "m", "i", "t", "}">>,
      <<"{", "m", "xC3", "xA9", "}">>,
      <<"{", "}">>,
      <<"<", "h", "t", "m", "l", ">">>,
      <<"<">> \o [i \in 1..ErrorBodyMax |-> "z"],
      <<>> }

\* JSON.parse(errorBody) and parsed.error?.message: ok is false where
\* JSON.parse throws; message is empty where there is none.
ParseErrorBody(body) ==
    IF Len(body) < 2 \/ body[1] # "{" \/ body[Len(body)] # "}"
    THEN [ok |-> FALSE, message |-> <<>>]
    ELSE IF Len(body) > 2 /\ body[2] = "m"
    THEN [ok |-> TRUE, message |-> SubSeq(body, 3, Len(body) - 1)]
    ELSE [ok |-> TRUE, message |-> <<>>]

\* new Error(`API error (${res.statusCode}): ${errorMessage}`)
ApiError(code, errorMessage) ==
    [status |-> code, text |-> <<"API error (", ToString(code), "): ">> \o errorMessage]

\* The state of the handlers of a response that is not 200.
NewErrorReader ==
    [errorBody |-> <<>>, settled |-> "pending", error |-> ApiError(0, <<>>),
     deltas |-> <<>>]

\* res.on('data') of such a response
OnErrorData(d, chunk) == [d EXCEPT !.errorBody = @ \o Utf8(chunk)]

\* res.on('end') of such a response
OnErrorEnd(d, code) ==
    LET parsed == ParseErrorBody(d.errorBody)
        errorMessage ==
            IF parsed.ok
            THEN (IF parsed.message # <<>> THEN parsed.message ELSE d.errorBody)
            ELSE SubSeq(d.errorBody, 1,
                        IF Len(d.errorBody) < ErrorBodyMax THEN Len(d.errorBody)
                        ELSE ErrorBodyMax)
    IN  IF d.settled # "pending" THEN d
        ELSE [d EXCEPT !.settled = "rejected", !.error = ApiError(code, errorMessage)]

\* A response arrives: of another status with one of the bodies, or of
\* status 200 with a stream of one line.
ResponseInit ==
    /\ \/ /\ statusCode \in ErrorStatuses
          /\ wire \in ErrorBodies
          /\ dec = NewErrorReader
       \/ /\ statusCode = 200
          /\ wire \in { Join(<<l>>) : l \in Lines }
          /\ dec = NewDecoder
    /\ pos = 0
    /\ ended = FALSE
    /\ closedBy = ""
    /\ clean = NewDecoder
    /\ malformed = MalformedBytes(wire)

\* ------------------------------------------------------------ provider stub
\* The tool-call lists a response of the stub carries: one read-only tool; a
\* state-mutating and a read-only tool; an unregistered name and a
\* state-mutating tool; a list with a placeholder slot (a skipped index).
CallLists ==
    { << [id |-> "c1", name |-> "list_files", arguments |-> "{\"path\":\".\"}"] >>,
      << [id |-> "c1", name |-> "write_file", arguments |-> "{}"],
         [id |-> "c2", name |-> "list_files", arguments |-> "{}"] >>,
      << [id |-> "c1", name |-> "no_such_tool", arguments |-> "{}"],
         [id |-> "c2", name |-> "run_shell", arguments |-> "{}"] >>,
      << [id |-> "c1", name |-> "read_file", arguments |-> "{}"],
         [id |-> "", name |-> "", arguments |-> ""],
         [id |-> "c3", name |-> "edit_file", arguments |-> "{}"] >> }

ProviderErrors ==
    { <<"API error (", "429", "): ", "Rate limit exceeded">>,
      <<"API error (", "401", "): ", "Unauthorized">>,
      <<"Request timed out">> }

\* A script of the stub: tool calls `calls` in the first k iterations of each
\* run and a final answer after them; its failAt-th call of the session
\* rejects with failErr; the handlers throw on their first handlerFails calls
\* and return a small or (in the scripts without a provider failure) a large
\* value afterwards.
Scripts ==
    { s \in [k : (0..MaxShortK) \cup {MAX_ITERATIONS}, calls : CallLists,
             failAt : 0..MaxFailAt, failErr : ProviderErrors \cup {<<>>},
             handlerFails : 0..MaxHandlerFails, big : BOOLEAN] :
        /\ (s.failAt = 0) <=> (s.failErr = <<>>)
        /\ s.big => s.failAt = 0 }

FinalText == <<"final", "answer">>

\* The session states the run starts from: (mode, activeModel, manualOverride)
\* as left by the constructor, setMode, setModel and clearModelOverride.
SessionConfigs ==
    { <<"plan", "", FALSE>>, <<"auto", "", FALSE>>, <<"code", "", FALSE>>,
      <<"debug", "user/model-x", TRUE>> }

\* ---------------------------------------------------------------- variables
VARIABLES
    mode, activeModel, manualOverride, isThinking, agentIterations, contextUsed,
    status,         \* the last status published
    history,        \* memory._messages
    pc,             \* where run() is: idle, loop, stream, tool, exec
    run,            \* the locals of run()
    last,           \* how the last run ended
    warned,         \* the maximum-iterations warning was emitted in this run
    script, provCalls, handlerCalls,    \* the stubs
    runs,           \* runs started
    appended,       \* the turns this run appended to the memory, in order
    calls,          \* the provider calls of this run: iteration and model
    dispatched,     \* the invocations this run dispatched, with their attempts
    histAtCall,     \* the stored turns when the pending provider call was issued
    prev            \* how the run before this one ended

agentVars ==
    <<mode, activeModel, manualOverride, isThinking, agentIterations, contextUsed,
      status, history, pc, run, last, warned, script, provCalls, handlerCalls, runs,
      appended, calls, dispatched, histAtCall, prev>>

VARIABLES
    sessionId,      \* state.sessionId
    saveHistory,    \* conf.system.saveHistory
    disk,           \* the history files, by session id
    persisted,      \* the messages each history file was last written from
    outbound,       \* what the last getMessages() returned
    lastOp,         \* the last call of a method of the memory, what it was
                    \* called on and what it returned
    memOps,         \* calls made
    resumed         \* the session id of the last loadFromDisk that succeeded

memVars == <<sessionId, saveHistory, disk, persisted, outbound, lastOp, memOps, resumed>>

NoOp == [op |-> "none", before |-> <<>>, id |-> "", returned |-> FALSE,
         threw |-> FALSE]

\* The memory of a process that has stored nothing.
MemIdle ==
    /\ history = <<>>
    /\ sessionId = ""
    /\ saveHistory = TRUE
    /\ disk = [id \in SessionIds |-> NoFile]
    /\ persisted = [id \in SessionIds |-> <<>>]
    /\ outbound = <<>>
    /\ lastOp = NoOp
    /\ memOps = 0
    /\ resumed = ""

\* The memory when the first run starts: index.js has set the session id. The
\* runs are those of a session whose configuration switches history saving
\* off (conf.system.saveHistory === false); what the methods of the memory
\* save is the matter of MemorySpec.
MemStarted ==
    /\ sessionId = "s1"
    /\ saveHistory = FALSE
    /\ disk = [id \in SessionIds |-> NoFile]
    /\ persisted = [id \in SessionIds |-> <<>>]
    /\ outbound = <<>>
    /\ lastOp = NoOp
    /\ memOps = 0
    /\ resumed = ""

\* The _saveToDisk() that ends a mutation which leaves the messages h.
SavedAs(h) ==
    /\ disk' = saveToDisk(disk, saveHistory, sessionId, h)
    /\ persisted' = IF ~saveHistory \/ sessionId = "" THEN persisted
                    ELSE [persisted EXCEPT ![sessionId] = h]

NotSaved == UNCHANGED <<disk, persisted>>

VARIABLES
    swarm,          \* the locals of a runSwarmTask in progress, and its phase
    sessionCall     \* the last call of an operation of the session state or of
                    \* the router, and what it returned

sessionVars == <<swarm, sessionCall>>

NoSwarm ==
    [phase |-> 0, useFreeModels |-> FALSE, originalMode |-> "", originalModel |-> "",
     originalOverride |-> FALSE]

NoRoute == [model |-> "", mode |-> "", routed |-> FALSE]

NoSessionCall ==
    [op |-> "none", arg |-> <<>>, threw |-> FALSE,
     before |-> SessionState("", "", FALSE), result |-> NoRoute]

\* No swarm runs and nothing was called yet.
VARIABLES
    fan             \* a fan-out in progress (aggregateReasoning or spawnCouncil):
                    \* its sub-agents, the provider calls issued, its outcome

fanVars == <<fan>>

NoFan ==
    [op |-> "none", pc |-> "idle", problem |-> <<>>, context |-> <<>>, paths |-> <<>>,
     calls |-> <<>>, result |-> <<>>, error |-> <<>>]

FanIdle == fan = NoFan

VARIABLES
    file,           \* the file edit_file and apply_diff work on: whether it
                    \* exists, its content, the writes made to it
    fileCall,       \* the last call of edit_file or apply_diff: its arguments,
                    \* the file before it, whether it threw
    taskFile,       \* .zaycode_task.md: whether it exists, its content
    todoCalls       \* the todo_write calls made, in order

fsVars == <<file, fileCall, taskFile, todoCalls>>

NoFileCall ==
    [op |-> "none", chunks |-> <<>>, threw |-> FALSE,
     before |-> [exists |-> FALSE, content |-> <<>>, writes |-> 0]]

FsIdle ==
    /\ file = [exists |-> FALSE, content |-> <<>>, writes |-> 0]
    /\ fileCall = NoFileCall
    /\ taskFile = [exists |-> FALSE, content |-> <<>>]
    /\ todoCalls = <<>>


SessionIdle ==
    /\ swarm = NoSwarm
    /\ sessionCall = NoSessionCall

NoResponse == [text |-> <<>>, toolCalls |-> <<>>]

NoResult == [success |-> FALSE, result |-> <<>>, error |-> <<>>]

IdleRun ==
    [prompt |-> <<>>, model |-> "", mode |-> "", iterations |-> 0, finalText |-> <<>>,
     response |-> NoResponse, tcIdx |-> 0, attempts |-> 0, result |-> NoResult,
     stateModified |-> FALSE, retrying |-> FALSE]

NoOutcome == [outcome |-> "none", error |-> <<>>, text |-> <<>>, model |-> "",
              mode |-> "", iterations |-> 0]

AgentInit ==
    /\ \E c \in SessionConfigs :
        /\ mode = c[1]
        /\ activeModel = c[2]
        /\ manualOverride = c[3]
    /\ isThinking = FALSE
    /\ agentIterations = 0
    /\ contextUsed = 0
    /\ status = "IDLE"
    /\ history = <<>>
    /\ pc = "idle"
    /\ run = IdleRun
    /\ last = NoOutcome
    /\ warned = FALSE
    /\ script \in Scripts
    /\ provCalls = 0
    /\ handlerCalls = 0
    /\ runs = 0
    /\ appended = <<>>
    /\ calls = <<>>
    /\ dispatched = <<>>
    /\ histAtCall = <<>>
    /\ prev = "none"

\* The agent at rest, as the specification of the decoder leaves it.
AgentIdle ==
    /\ mode = "plan"
    /\ activeModel = ""
    /\ manualOverride = FALSE
    /\ isThinking = FALSE
    /\ agentIterations = 0
    /\ contextUsed = 0
    /\ status = "IDLE"
    /\ pc = "idle"
    /\ run = IdleRun
    /\ last = NoOutcome
    /\ warned = FALSE
    /\ script = [k |-> 0, calls |-> <<>>, failAt |-> 0, failErr |-> <<>>,
                 handlerFails |-> 0, big |-> FALSE]
    /\ provCalls = 0
    /\ handlerCalls = 0
    /\ runs = 0
    /\ appended = <<>>
    /\ calls = <<>>
    /\ dispatched = <<>>
    /\ histAtCall = <<>>
    /\ prev = "none"

\* A return of run() that leaves the state as the loop left it.
Return_NoFinally(text) ==
    /\ UNCHANGED <<isThinking, status>>
    /\ pc' = "idle"
    /\ last' = [outcome |-> "returned", error |-> <<>>, text |-> text,
                model |-> run.model, mode |-> run.mode, iterations |-> run.iterations]

\* `finally` and the return of run().
Return(text) ==
    /\ isThinking' = FALSE
    /\ status' = "IDLE"
    /\ pc' = "idle"
    /\ last' = [outcome |-> "returned", error |-> <<>>, text |-> text,
                model |-> run.model, mode |-> run.mode, iterations |-> run.iterations]

\* A rejection of run() that skips the `finally` block.
Throw_NoFinally(err) ==
    /\ UNCHANGED <<isThinking, status>>
    /\ pc' = "idle"
    /\ last' = [NoOutcome EXCEPT !.outcome = "threw", !.error = err]

\* `finally` and the rejection of run() with err.
Throw(err) ==
    /\ isThinking' = FALSE
    /\ status' = "IDLE"
    /\ pc' = "idle"
    /\ last' = [NoOutcome EXCEPT !.outcome = "threw", !.error = err]

\* run(prompt, memory) up to the loop.
StartRun(prompt) ==
    /\ pc = "idle"
    /\ runs < MaxRuns
    /\ runs' = runs + 1
    /\ prev' = last.outcome
    /\ LET r == route(prompt, mode, activeModel, manualOverride)
       IN  IF r.model = "" THEN
               /\ last' = [NoOutcome EXCEPT !.outcome = "threw",
                                            !.error = <<"No model available">>]
               /\ UNCHANGED <<history, isThinking, agentIterations, status, run, pc,
                              appended, calls, dispatched, warned>>
               /\ NotSaved
           ELSE
               /\ history' = addUser(history, prompt)
               /\ SavedAs(addUser(history, prompt))
               /\ appended' = <<UserTurn(prompt)>>
               /\ isThinking' = TRUE
               /\ agentIterations' = 0
               /\ status' = "THINKING"
               /\ run' = [IdleRun EXCEPT !.prompt = prompt, !.model = r.model,
                                         !.mode = r.mode]
               /\ pc' = "loop"
               /\ last' = NoOutcome
               /\ calls' = <<>>
               /\ dispatched' = <<>>
               /\ warned' = FALSE
    /\ UNCHANGED <<streamVars, execVars, sessionVars, fanVars, fsVars>>
    /\ UNCHANGED <<mode, activeModel, manualOverride, contextUsed, script, provCalls,
                   handlerCalls, histAtCall>>
    /\ UNCHANGED <<sessionId, saveHistory, outbound, lastOp, memOps, resumed>>

\* The head of an iteration: the loop condition, pruning, the provider call.
LoopCondition_OffByOne == run.iterations <= MAX_ITERATIONS

\* `while (iterations < MAX_ITERATIONS)`
LoopCondition == run.iterations < MAX_ITERATIONS

LoopHead ==
    /\ pc = "loop"
    /\ IF LoopCondition THEN
           /\ IF 10 * getTokenEstimate(history) > 8 * ContextMax THEN
                  /\ history' = prune(history)
                  /\ IF Len(history) >= MinPruneLen THEN SavedAs(prune(history))
                     ELSE NotSaved
              ELSE
                  /\ history' = history
                  /\ NotSaved
           /\ run' = [run EXCEPT !.iterations = @ + 1]
           /\ agentIterations' = agentIterations + 1
           /\ contextUsed' = getTokenEstimate(history')
           /\ provCalls' = provCalls + 1
           /\ calls' = Append(calls, [iteration |-> run.iterations + 1,
                                      model |-> run.model])
           /\ histAtCall' = history'
           /\ outbound' = MessagesForApi(history', run.iterations + 1)
           /\ pc' = "stream"
           /\ UNCHANGED <<isThinking, status, last, warned>>
       ELSE
           /\ warned' = TRUE
           /\ Return(run.finalText)
           /\ UNCHANGED <<run, agentIterations, history, contextUsed, provCalls, calls,
                          histAtCall, outbound>>
           /\ NotSaved
    /\ UNCHANGED <<sessionId, saveHistory, lastOp, memOps, resumed>>
    /\ UNCHANGED <<streamVars, execVars, sessionVars, fanVars, fsVars>>
    /\ UNCHANGED <<mode, activeModel, manualOverride, script, handlerCalls, runs,
                   appended, dispatched, prev>>

\* openrouter.stream rejects: the fallback of the catch block, or the rethrow.
StreamRejects ==
    /\ pc = "stream"
    /\ provCalls = script.failAt
    /\ IF ~run.retrying /\ IsCapacityError(script.failErr) /\ ~ModelBindingIsConst THEN
           /\ run' = [run EXCEPT !.model = fallbackModel(run.mode), !.retrying = TRUE]
           /\ provCalls' = provCalls + 1
           /\ calls' = Append(calls, [iteration |-> run.iterations,
                                      model |-> fallbackModel(run.mode)])
           /\ UNCHANGED <<isThinking, status, pc, last>>
       ELSE
           /\ Throw(IF ~run.retrying /\ IsCapacityError(script.failErr)
                    THEN TypeErrorConst ELSE script.failErr)
           /\ UNCHANGED <<run, provCalls, calls>>
    /\ UNCHANGED <<streamVars, execVars, memVars, sessionVars, fanVars, fsVars>>
    /\ UNCHANGED <<mode, activeModel, manualOverride, agentIterations, contextUsed,
                   history, warned, script, handlerCalls, runs, appended, dispatched,
                   histAtCall, prev>>

\* The response of the stub to the call of this iteration.
StubResponse ==
    IF run.iterations <= script.k
    THEN [text |-> <<>>, toolCalls |-> script.calls]
    ELSE [text |-> FinalText, toolCalls |-> <<>>]

\* openrouter.stream resolves: the assistant turn, and the end of the run when
\* the response carries no tool call.
StreamResolves ==
    /\ pc = "stream"
    /\ provCalls # script.failAt
    /\ LET response == StubResponse
       IN  IF Len(response.toolCalls) > 0 THEN
               /\ history' = addAssistant(history, response.text, response.toolCalls)
               /\ SavedAs(addAssistant(history, response.text, response.toolCalls))
               /\ appended' = Append(appended,
                                  AssistantTurn(response.text, response.toolCalls))
               /\ run' = [run EXCEPT !.response = response, !.tcIdx = 1,
                                     !.stateModified = FALSE, !.retrying = FALSE]
               /\ pc' = "tool"
               /\ UNCHANGED <<isThinking, status, last, warned>>
           ELSE
               /\ history' = addAssistant(history, response.text, <<>>)
               /\ SavedAs(addAssistant(history, response.text, <<>>))
               /\ appended' = Append(appended, AssistantTurn(response.text, <<>>))
               /\ run' = [run EXCEPT !.response = response,
                                     !.finalText = response.text, !.retrying = FALSE]
               /\ warned' = (run.iterations >= MAX_ITERATIONS)
               /\ Return(response.text)
    /\ UNCHANGED <<sessionId, saveHistory, outbound, lastOp, memOps, resumed>>
    /\ UNCHANGED <<streamVars, execVars, sessionVars, fanVars, fsVars>>
    /\ UNCHANGED <<mode, activeModel, manualOverride, agentIterations, contextUsed,
                   script, provCalls, handlerCalls, runs, calls, dispatched, histAtCall,
                   prev>>

\* The next invocation of the round: its name and its parsed arguments.
BeginTool ==
    /\ pc = "tool"
    /\ LET tc == run.response.toolCalls[run.tcIdx]
       IN  IF ~JsonParses(tc.arguments) THEN
               /\ Throw(SyntaxErrorJson)
               /\ UNCHANGED run
           ELSE
               /\ run' = [run EXCEPT !.attempts = 0,
                              !.stateModified = @ \/ (tc.name \in CRITICAL_TOOLS)]
               /\ pc' = "exec"
               /\ UNCHANGED <<isThinking, status, last>>
    /\ UNCHANGED <<streamVars, execVars, memVars, sessionVars, fanVars, fsVars>>
    /\ UNCHANGED <<mode, activeModel, manualOverride, agentIterations, contextUsed,
                   history, warned, script, provCalls, handlerCalls, runs, appended,
                   calls, dispatched, histAtCall, prev>>

HealingTurn ==
    UserTurn(<<"[SELF-HEALING FAILURE]", "The tests failed after your last changes.",
               "test output">>)

\* One executor.execute call of the robustness loop; after the last one, the
\* tool-result turn, and after the last invocation the self-healing step.
ExecAttempt ==
    /\ pc = "exec"
    /\ LET tc == run.response.toolCalls[run.tcIdx]
           throws == handlerCalls < script.handlerFails
           value == IF script.big THEN <<"BIG">> ELSE HandlerValue(tc.name)
           result == execute(TOOL_HANDLERS, tc.name,
                             IF throws THEN Throws("throws", <<"handler error">>)
                             ELSE Returns(value))
           attempts == run.attempts + 1
           turn == ToolTurn(tc.id, ToolContent(result))
           lastOfRound == run.tcIdx = Len(run.response.toolCalls)
           currentMode == IF mode # "" THEN mode ELSE run.mode
       IN  /\ handlerCalls' = IF Registered(tc.name) THEN handlerCalls + 1
                               ELSE handlerCalls
           /\ IF result.success \/ attempts >= maxAttempts(tc.name) THEN
                  /\ dispatched' = Append(dispatched,
                                      [iteration |-> run.iterations, slot |-> run.tcIdx,
                                       name |-> tc.name, attempts |-> attempts,
                                       success |-> result.success])
                  /\ run' = [run EXCEPT !.attempts = attempts, !.result = result,
                                 !.tcIdx = IF lastOfRound THEN @ ELSE @ + 1]
                  /\ pc' = IF lastOfRound THEN "loop" ELSE "tool"
                  /\ SavedAs(addToolResult(history, tc.id, ToolContent(result)))
                  /\ IF lastOfRound /\ run.stateModified /\ currentMode = "build" THEN
                         \E testsPass \in BOOLEAN :
                             /\ history' =
                                  IF testsPass
                                  THEN addToolResult(history, tc.id, ToolContent(result))
                                  ELSE Append(addToolResult(history, tc.id,
                                                            ToolContent(result)),
                                              HealingTurn)
                             /\ appended' = IF testsPass THEN Append(appended, turn)
                                            ELSE appended \o <<turn, HealingTurn>>
                     ELSE
                         /\ history' = addToolResult(history, tc.id, ToolContent(result))
                         /\ appended' = Append(appended, turn)
              ELSE
                  /\ run' = [run EXCEPT !.attempts = attempts, !.result = result]
                  /\ UNCHANGED <<pc, history, appended, dispatched>>
                  /\ NotSaved
    /\ UNCHANGED <<sessionId, saveHistory, outbound, lastOp, memOps, resumed>>
    /\ UNCHANGED <<streamVars, execVars, sessionVars, fanVars, fsVars>>
    /\ UNCHANGED <<mode, activeModel, manualOverride, isThinking, agentIterations,
                   contextUsed, status, last, warned, script, provCalls, runs, calls,
                   histAtCall, prev>>

\* The transport delivers the next n bytes as one chunk.
Deliver(n) ==
    /\ statusCode = 200
    /\ ~ended
    /\ pos + n <= Len(wire)
    /\ dec' = OnData(dec, SubSeq(wire, pos + 1, pos + n))
    /\ LET chunk == WithoutMalformed(pos + 1, pos + n)
       IN  clean' = IF chunk = <<>> THEN clean ELSE OnData(clean, chunk)
    /\ pos' = pos + n
    /\ UNCHANGED <<wire, ended, malformed, statusCode, closedBy>>
    /\ UNCHANGED <<agentVars, execVars, memVars, sessionVars, fanVars, fsVars>>

\* The transport ends.
End ==
    /\ statusCode = 200
    /\ ~ended
    /\ pos = Len(wire)
    /\ dec' = OnEnd(dec)
    /\ clean' = OnEnd(clean)
    /\ ended' = TRUE
    /\ closedBy' = "end"
    /\ UNCHANGED <<wire, pos, malformed, statusCode>>
    /\ UNCHANGED <<agentVars, execVars, memVars, sessionVars, fanVars, fsVars>>

\* The transport delivers the next n bytes of the body of a response that is
\* not 200.
DeliverError(n) ==
    /\ statusCode \notin {0, 200}
    /\ ~ended
    /\ pos + n <= Len(wire)
    /\ dec' = OnErrorData(dec, SubSeq(wire, pos + 1, pos + n))
    /\ pos' = pos + n
    /\ UNCHANGED <<wire, ended, clean, malformed, statusCode, closedBy>>
    /\ UNCHANGED <<agentVars, execVars, memVars, sessionVars, fanVars, fsVars>>

\* The transport of such a response ends.
EndError ==
    /\ statusCode \notin {0, 200}
    /\ ~ended
    /\ pos = Len(wire)
    /\ dec' = OnErrorEnd(dec, statusCode)
    /\ ended' = TRUE
    /\ closedBy' = "end"
    /\ UNCHANGED <<wire, pos, clean, malformed, statusCode>>
    /\ UNCHANGED <<agentVars, execVars, memVars, sessionVars, fanVars, fsVars>>

\* The bodies a response of status `code` may carry.
ResponseBodies(code) ==
    IF code = 200 THEN { Join(<<l>>) : l \in Lines } ELSE ErrorBodies

\* The callback of https.request: the response arrives, and the handlers of
\* its status are registered.
Response(code, body) ==
    /\ statusCode = 0
    /\ ~ended
    /\ statusCode' = code
    /\ wire' = body
    /\ malformed' = MalformedBytes(body)
    /\ dec' = IF code = 200 THEN NewDecoder ELSE NewErrorReader
    /\ UNCHANGED <<pos, ended, clean, closedBy>>
    /\ UNCHANGED <<agentVars, execVars, memVars, sessionVars, fanVars, fsVars>>

\* The response is cut before its end (the peer closes the connection inside
\* the body). res.on('error') is registered for status 200 only: the branch
\* of the other statuses returns before it, and a response without a
\* listener of 'error' is closed silently, without 'end'.
ResponseError ==
    /\ statusCode # 0
    /\ ~ended
    /\ pos < Len(wire)
    /\ dec' = IF statusCode = 200 THEN Reject(dec, <<"aborted">>) ELSE dec
    /\ ended' = TRUE
    /\ closedBy' = "response error"
    /\ UNCHANGED <<wire, pos, clean, malformed, statusCode>>
    /\ UNCHANGED <<agentVars, execVars, memVars, sessionVars, fanVars, fsVars>>

\* req.on('error'): the connection fails, before or after the response has
\* arrived.
RequestError ==
    /\ ~ended
    /\ dec' = Reject(dec, <<"Network error: ", "ECONNRESET">>)
    /\ ended' = TRUE
    /\ closedBy' = "request error"
    /\ UNCHANGED <<wire, pos, clean, malformed, statusCode>>
    /\ UNCHANGED <<agentVars, execVars, memVars, sessionVars, fanVars, fsVars>>

\* req.on('timeout'): the socket has been idle for DEFAULT_TIMEOUT; the
\* request is destroyed.
Timeout ==
    /\ ~ended
    /\ dec' = Reject(dec, <<"Request timed out">>)
    /\ ended' = TRUE
    /\ closedBy' = "timeout"
    /\ UNCHANGED <<wire, pos, clean, malformed, statusCode>>
    /\ UNCHANGED <<agentVars, execVars, memVars, sessionVars, fanVars, fsVars>>

\* registerTool(name, handler)
RegisterTool(name, handler) ==
    /\ registerCalls < MaxRegister
    /\ registerCalls' = registerCalls + 1
    /\ TOOL_HANDLERS' = registerTool(TOOL_HANDLERS, name, handler)
    /\ registrations' =
         [name |-> name, handler |-> handler, threw |-> registerToolThrows(handler),
          latest |-> IF registerToolThrows(handler) THEN registrations.latest
                     ELSE [registrations.latest EXCEPT ![name] = handler]]
    /\ UNCHANGED <<execResult, lastCall>>
    /\ UNCHANGED <<agentVars, streamVars, memVars, sessionVars, fanVars, fsVars>>

\* await executor.execute({ name, arguments })
Execute(name, outcome) ==
    /\ execResult' = execute(TOOL_HANDLERS, name, outcome)
    /\ lastCall' = [name |-> name, outcome |-> outcome, keys |-> Keys(TOOL_HANDLERS),
                    handler |-> Lookup(TOOL_HANDLERS, name)]
    /\ UNCHANGED <<TOOL_HANDLERS, registerCalls, registrations>>
    /\ UNCHANGED <<agentVars, streamVars, memVars, sessionVars, fanVars, fsVars>>

\* A session in use: a stored history, the session of the process saved under
\* s1 unless saving is off or no id is set, an older session under s2, no
\* file under s3, and under s4 a file that was cut short.
MemoryInit ==
    /\ history \in Histories
    /\ \E c \in {<<"s1", TRUE>>, <<"s1", FALSE>>, <<"", TRUE>>} :
        /\ sessionId = c[1]
        /\ saveHistory = c[2]
    /\ persisted = [id \in SessionIds |->
                      IF id = "s2" THEN Pattern(5)
                      ELSE IF id = "s1" /\ sessionId = "s1" /\ saveHistory
                           THEN history ELSE <<>>]
    /\ disk = [id \in SessionIds |->
                 IF id = "s2" \/ persisted[id] # <<>>
                 THEN [exists |-> TRUE, text |-> JSON_stringify(persisted[id])]
                 ELSE IF id = "s4"
                 THEN [exists |-> TRUE, text |-> CutShort(JSON_stringify(Pattern(3)))]
                 ELSE NoFile]
    /\ outbound = <<>>
    /\ lastOp = NoOp
    /\ memOps = 0
    /\ resumed = ""

\* One call of a method of the memory that leaves the messages h.
CallThat(op, id, returned, threw, h) ==
    /\ memOps < MaxMemOps
    /\ memOps' = memOps + 1
    /\ history' = h
    /\ lastOp' = [op |-> op, before |-> history, id |-> id, returned |-> returned,
                  threw |-> threw]
    /\ UNCHANGED <<mode, activeModel, manualOverride, isThinking, agentIterations,
                   contextUsed, status, pc, run, last, warned, script, provCalls,
                   handlerCalls, runs, appended, calls, dispatched, histAtCall, prev>>
    /\ UNCHANGED <<streamVars, execVars, sessionVars, fanVars, fsVars>>

Call(op, id, returned, h) == CallThat(op, id, returned, FALSE, h)

\* memory.addUser(content)
AddUser(content) ==
    /\ Call("addUser", "", FALSE, addUser(history, content))
    /\ SavedAs(addUser(history, content))
    /\ UNCHANGED <<sessionId, saveHistory, outbound, resumed>>

\* memory.addAssistant(content, toolCalls)
AddAssistant(content, toolCalls) ==
    /\ Call("addAssistant", "", FALSE, addAssistant(history, content, toolCalls))
    /\ SavedAs(addAssistant(history, content, toolCalls))
    /\ UNCHANGED <<sessionId, saveHistory, outbound, resumed>>

\* memory.addToolResult(toolCallId, content)
AddToolResult(toolCallId, content) ==
    /\ Call("addToolResult", "", FALSE, addToolResult(history, toolCallId, content))
    /\ SavedAs(addToolResult(history, toolCallId, content))
    /\ UNCHANGED <<sessionId, saveHistory, outbound, resumed>>

\* memory.prune(0.5): it returns before saving when fewer than 10 messages
\* are stored.
Prune ==
    /\ Call("prune", "", FALSE, prune(history))
    /\ IF Len(history) < MinPruneLen THEN NotSaved ELSE SavedAs(prune(history))
    /\ UNCHANGED <<sessionId, saveHistory, outbound, resumed>>

\* memory.clear()
Clear ==
    /\ Call("clear", "", FALSE, <<>>)
    /\ SavedAs(<<>>)
    /\ UNCHANGED <<sessionId, saveHistory, outbound, resumed>>

\* memory.getMessages()
GetMessages ==
    /\ Call("getMessages", "", FALSE, getMessages(history).stored)
    /\ outbound' = getMessages(history).messages
    /\ NotSaved
    /\ UNCHANGED <<sessionId, saveHistory, resumed>>

\* memory.loadFromDisk(id)
LoadFromDisk(id) ==
    LET r == loadFromDisk(disk, id, history)
    IN  /\ CallThat("loadFromDisk", id, r.found, r.threw, r.messages)
        /\ sessionId' = IF r.found THEN id ELSE sessionId
        /\ resumed' = IF r.found THEN id ELSE resumed
        /\ NotSaved
        /\ UNCHANGED <<saveHistory, outbound>>

\* One call of an operation of the session state that leaves the state st.
SessionCall(op, arg, threw, st, result) ==
    /\ mode' = st.mode
    /\ activeModel' = st.activeModel
    /\ manualOverride' = st.manualOverride
    /\ sessionCall' = [op |-> op, arg |-> arg, threw |-> threw,
                       before |-> SessionState(mode, activeModel, manualOverride),
                       result |-> result]
    /\ UNCHANGED <<isThinking, agentIterations, contextUsed, status, history, pc, run,
                   last, warned, script, provCalls, handlerCalls, runs, appended,
                   calls, dispatched, histAtCall, prev>>
    /\ UNCHANGED <<streamVars, execVars, memVars, fanVars, fsVars>>

Session == SessionState(mode, activeModel, manualOverride)

\* state.setMode(m), from the mode menu, the mode key or /mode.
SetMode(m) ==
    /\ SessionCall("setMode", <<m>>, setMode(Session, m).threw,
                   setMode(Session, m).state, NoRoute)
    /\ UNCHANGED swarm

\* state.setModel(modelId), from the model menu or /use.
SetModel(modelId) ==
    /\ SessionCall("setModel", <<modelId>>, setModel(Session, modelId).threw,
                   setModel(Session, modelId).state, NoRoute)
    /\ UNCHANGED swarm

\* state.clearModelOverride()
ClearModelOverride ==
    /\ SessionCall("clearModelOverride", <<>>, FALSE,
                   clearModelOverride(Session).state, NoRoute)
    /\ UNCHANGED swarm

\* runSwarmTask up to its first await: the state is saved and the first phase
\* switches the model or the mode.
SwarmStart(useFreeModels) ==
    /\ swarm.phase = 0
    /\ swarm' = [phase |-> 1, useFreeModels |-> useFreeModels,
                 originalMode |-> mode, originalModel |-> activeModel,
                 originalOverride |-> manualOverride]
    /\ SessionCall("runSwarmTask:phase", <<>>, FALSE,
                   SwarmSwitch(Session, useFreeModels, 1), NoRoute)

\* agent.run of a phase has returned and the next phase begins.
SwarmNextPhase ==
    /\ swarm.phase \in 1..(Len(SwarmModes) - 1)
    /\ swarm' = [swarm EXCEPT !.phase = swarm.phase + 1]
    /\ SessionCall("runSwarmTask:phase", <<>>, FALSE,
                   SwarmSwitch(Session, swarm.useFreeModels, swarm.phase + 1), NoRoute)

\* runSwarmTask leaves through its finally block: after the last phase, or
\* earlier when agent.run of a phase throws.
SwarmEnd(threw) ==
    /\ swarm.phase \in 1..Len(SwarmModes)
    /\ ~ threw => swarm.phase = Len(SwarmModes)
    /\ swarm' = NoSwarm
    /\ SessionCall("runSwarmTask",
                   <<swarm.originalMode, swarm.originalModel, swarm.originalOverride>>,
                   threw,
                   SwarmRestore(Session, swarm.originalMode, swarm.originalModel,
                                swarm.originalOverride), NoRoute)

\* router.route(prompt)
Route(prompt) ==
    /\ SessionCall("route", prompt, FALSE, Session,
                   route(prompt, mode, activeModel, manualOverride))
    /\ UNCHANGED swarm

\* classifyIntent(prompt)
ClassifyIntent(prompt) ==
    /\ SessionCall("classifyIntent", prompt, FALSE, Session,
                   [NoRoute EXCEPT !.mode = classifyIntent(prompt)])
    /\ UNCHANGED swarm

\* ------------------------------------------------------------------ fan-out
\* this.numPaths of the ReasoningEngine
numPaths == 3

\* The default of the personas parameter of spawnCouncil
DefaultPersonas == <<"SECURITY", "PERFORMANCE", "ARCHITECT">>

\* _runSinglePath: the message list of reasoning unit `id`, built anew in each
\* call: the system turn of the unit, the turns of the context, the problem.
PathMessages(problem, context, id) ==
    << [role |-> "system",
        content |-> <<"You are an independent reasoning unit", ToString(id)>>] >>
    \o context
    \o << [role |-> "user", content |-> problem] >>

\* state.prop('activeModel') || 'anthropic/claude-sonnet-4'
PathModel == IF activeModel # "" THEN activeModel ELSE "anthropic/claude-sonnet-4"

\* state.prop('activeModel') || 'openai/gpt-4o'
DistillModel == IF activeModel # "" THEN activeModel ELSE "openai/gpt-4o"

\* paths.map((p, i) => `--- PATH ${i + 1} ---\n${p}`).join('\n\n')
RECURSIVE JoinPaths(_, _)
JoinPaths(paths, i) ==
    IF i > Len(paths) THEN <<>>
    ELSE <<"--- PATH", ToString(i), "---">> \o paths[i] \o JoinPaths(paths, i + 1)

\* _distillConsensus: the message list of the aggregation call.
DistillMessages(problem, paths) ==
    << [role |-> "user",
        content |-> <<"[LOGICAL CONSENSUS PROTOCOL]", ToString(Len(paths))>>
                    \o problem \o JoinPaths(paths, 1)] >>

\* A provider call issued by sub-agent `by` (0: the aggregation call).
FanCall(by, model, messages) == [by |-> by, model |-> model, messages |-> messages]

\* The results of the paths, in the order of the paths: what Promise.all
\* resolves with.
PathResults(paths) == [i \in 1..Len(paths) |-> paths[i].text]

AllResolved(paths) == \A i \in 1..Len(paths) : paths[i].state = "resolved"

\* aggregateReasoning(problem, context) up to `await Promise.all`: the loop
\* calls _runSinglePath three times, and each call runs until its `await
\* openrouter.stream(...)`, so the three requests are issued one after the
\* other before anything else happens.
AggregateReasoning(problem, context) ==
    /\ fan.pc = "idle"
    /\ fan' = [NoFan EXCEPT
                 !.op = "aggregateReasoning", !.pc = "paths",
                 !.problem = problem, !.context = context,
                 !.paths = [i \in 1..numPaths |->
                              [state |-> "waiting",
                               messages |-> PathMessages(problem, context, i),
                               text |-> <<>>]],
                 !.calls = [i \in 1..numPaths |->
                              FanCall(i, PathModel, PathMessages(problem, context, i))]]
    /\ UNCHANGED <<agentVars, streamVars, execVars, memVars, sessionVars, fsVars>>

\* The call of path i resolves: `return response.text || ""`. When it is the
\* last one, Promise.all resolves and _distillConsensus issues the
\* aggregation call.
PathResolves(i, text) ==
    /\ i \in 1..Len(fan.paths)
    /\ fan.paths[i].state = "waiting"
    /\ LET paths == [fan.paths EXCEPT ![i].state = "resolved", ![i].text = text]
       IN  IF fan.pc = "paths" /\ AllResolved(paths)
           THEN fan' = [fan EXCEPT
                          !.paths = paths, !.pc = "aggregate",
                          !.calls = Append(@, FanCall(0, DistillModel,
                                       DistillMessages(fan.problem, PathResults(paths))))]
           ELSE fan' = [fan EXCEPT !.paths = paths]
    /\ UNCHANGED <<agentVars, streamVars, execVars, memVars, sessionVars, fsVars>>

\* The call of path i rejects: Promise.all rejects with the first rejection
\* and aggregateReasoning throws it; the other paths go on.
PathRejects(i, err) ==
    /\ i \in 1..Len(fan.paths)
    /\ fan.paths[i].state = "waiting"
    /\ fan' = [fan EXCEPT
                 !.paths[i].state = "rejected",
                 !.pc = IF fan.pc = "paths" THEN "threw" ELSE @,
                 !.error = IF fan.pc = "paths" THEN err ELSE @]
    /\ UNCHANGED <<agentVars, streamVars, execVars, memVars, sessionVars, fsVars>>

\* The aggregation call resolves:
\* `return response.text || "Failed to reach logical consensus."`
DistillResolves(text) ==
    /\ fan.pc = "aggregate"
    /\ fan' = [fan EXCEPT
                 !.pc = "returned",
                 !.result = IF text # <<>> THEN text
                            ELSE <<"Failed to reach logical consensus.">>]
    /\ UNCHANGED <<agentVars, streamVars, execVars, memVars, sessionVars, fsVars>>

\* The aggregation call rejects.
DistillRejects(err) ==
    /\ fan.pc = "aggregate"
    /\ fan' = [fan EXCEPT !.pc = "threw", !.error = err]
    /\ UNCHANGED <<agentVars, streamVars, execVars, memVars, sessionVars, fsVars>>

\* spawnCouncil(proposal, personas): its first statement is
\* renderer.info(...), and the module binds no `renderer` (it requires
\* openrouter, executor and state only), so the call rejects with a
\* ReferenceError before a reviewer is created.
SpawnCouncil(proposal, personas) ==
    /\ fan.pc = "idle"
    /\ fan' = [NoFan EXCEPT
                 !.op = "spawnCouncil", !.pc = "threw", !.problem = proposal,
                 !.context = personas,
                 !.error = <<"ReferenceError:", "renderer is not defined">>]
    /\ UNCHANGED <<agentVars, streamVars, execVars, memVars, sessionVars, fsVars>>

\* --------------------------------------------------------------- file tools
\* The search text occurs in the content at position i (the empty text occurs
\* everywhere).
OccursAt(content, search, i) ==
    /\ i + Len(search) - 1 <= Len(content)
    /\ SubSeq(content, i, i + Len(search) - 1) = search

\* content.includes(search)
ContentIncludes(content, search) ==
    \E i \in 1..(Len(content) + 1) : OccursAt(content, search, i)

\* content.indexOf(search), from 1
FirstIndexOf(content, search) ==
    CHOOSE i \in 1..(Len(content) + 1) :
        /\ OccursAt(content, search, i)
        /\ \A j \in 1..(i - 1) : ~OccursAt(content, search, j)

\* The replacement patterns of String.prototype.replace, each a token of the
\* replacement text: $$ is a dollar sign, $& the matched text, $` the text
\* before the match, $' the text after it.
RECURSIVE GetSubstitution(_, _, _, _)
GetSubstitution(matched, before, after, replacement) ==
    IF replacement = <<>> THEN <<>>
    ELSE (CASE Head(replacement) = "$$" -> <<"$">>
            [] Head(replacement) = "$&" -> matched
            [] Head(replacement) = "$`" -> before
            [] Head(replacement) = "$'" -> after
            [] OTHER -> <<Head(replacement)>>)
         \o GetSubstitution(matched, before, after, Tail(replacement))

\* content.replace(search, replacement) for a search string: the first
\* occurrence is replaced by the substitution of the replacement.
StringReplace(content, search, replacement) ==
    IF ~ContentIncludes(content, search) THEN content
    ELSE LET i == FirstIndexOf(content, search)
             before == SubSeq(content, 1, i - 1)
             after == SubSeq(content, i + Len(search), Len(content))
         IN  before \o GetSubstitution(search, before, after, replacement) \o after

\* The loop over the chunks (blocks) from the i-th on: ok is false when a
\* search text is not in the content as edited so far.
RECURSIVE ApplyChunks(_, _, _)
ApplyChunks(content, chunks, i) ==
    IF i > Len(chunks) THEN [ok |-> TRUE, content |-> content]
    ELSE IF ~ContentIncludes(content, chunks[i].search)
    THEN [ok |-> FALSE, content |-> content]
    ELSE ApplyChunks(StringReplace(content, chunks[i].search, chunks[i].replace),
                     chunks, i + 1)

\* What a call does to the file: it throws and leaves it, or writes it once.
FileThrows(f) == [threw |-> TRUE, file |-> f]

FileWritten(f, content) ==
    [threw |-> FALSE, file |-> [f EXCEPT !.content = content, !.writes = @ + 1]]

\* The chunks of a call of edit_file({path, chunks}) or, in the legacy
\* format, of edit_file({path, search, replace}); without either there are
\* none.
ChunksOf(args) ==
    IF ~args.hasChunks /\ args.legacy
    THEN << [search |-> args.search, replace |-> args.replace] >>
    ELSE IF args.hasChunks THEN args.chunks ELSE <<>>

\* edit_file(args)
edit_file(f, args) ==
    LET chunks == ChunksOf(args)
    IN  IF ~f.exists THEN FileThrows(f)
        ELSE IF chunks = <<>> THEN FileThrows(f)
        ELSE LET done == ApplyChunks(f.content, chunks, 1)
             IN  IF done.ok THEN FileWritten(f, done.content) ELSE FileThrows(f)

\* The markers of a diff, each a token of the diff text.
SearchMarker == "<<<<<<< SEARCH"

Divider == "======="

ReplaceMarker == ">>>>>>> REPLACE"

\* /<<<<<<< SEARCH\n([\s\S]*?)\n=======\n([\s\S]*?)\n>>>>>>> REPLACE/ matches
\* at s with the divider at j and the end at k.
DividerAt(t, j) ==
    j + 2 <= Len(t) /\ t[j] = "\n" /\ t[j + 1] = Divider /\ t[j + 2] = "\n"

EndAt(t, k) == k + 1 <= Len(t) /\ t[k] = "\n" /\ t[k + 1] = ReplaceMarker

BlockAt(t, s, j, k) ==
    /\ s + 1 <= Len(t) /\ t[s] = SearchMarker /\ t[s + 1] = "\n"
    /\ j >= s + 2 /\ DividerAt(t, j)
    /\ k >= j + 3 /\ EndAt(t, k)

\* _parseDiffBlocks(diff) from position `from`: the matches of the global
\* regular expression, each with the shortest search and replace texts.
RECURSIVE ParseDiffBlocks(_, _)
ParseDiffBlocks(t, from) ==
    LET N == 1..Len(t)
        starts == { s \in N : s >= from /\ \E j \in N, k \in N : BlockAt(t, s, j, k) }
    IN  IF starts = {} THEN <<>>
        ELSE LET s == CHOOSE x \in starts : \A y \in starts : x <= y
                 js == { j \in N : \E k \in N : BlockAt(t, s, j, k) }
                 j == CHOOSE x \in js : \A y \in js : x <= y
                 ks == { k \in N : BlockAt(t, s, j, k) }
                 k == CHOOSE x \in ks : \A y \in ks : x <= y
             IN  << [search |-> SubSeq(t, s + 2, j - 1),
                     replace |-> SubSeq(t, j + 3, k - 1)] >>
                 \o ParseDiffBlocks(t, k + 2)

\* apply_diff({path, diff})
apply_diff(f, diff) ==
    LET blocks == ParseDiffBlocks(diff, 1)
    IN  IF ~f.exists THEN FileThrows(f)
        ELSE IF blocks = <<>> THEN FileThrows(f)
        ELSE LET done == ApplyChunks(f.content, blocks, 1)
             IN  IF done.ok THEN FileWritten(f, done.content) ELSE FileThrows(f)

\* await fileTools.edit_file(args)
EditFile(args) ==
    /\ fileCall.op = "none"
    /\ file' = edit_file(file, args).file
    /\ fileCall' = [op |-> "edit_file",
                    chunks |-> ChunksOf(args),
                    threw |-> edit_file(file, args).threw, before |-> file]
    /\ UNCHANGED <<taskFile, todoCalls>>
    /\ UNCHANGED <<agentVars, streamVars, execVars, memVars, sessionVars, fanVars>>

\* await diffTools.apply_diff({path, diff})
ApplyDiff(diff) ==
    /\ fileCall.op = "none"
    /\ file' = apply_diff(file, diff).file
    /\ fileCall' = [op |-> "apply_diff", chunks |-> ParseDiffBlocks(diff, 1),
                    threw |-> apply_diff(file, diff).threw, before |-> file]
    /\ UNCHANGED <<taskFile, todoCalls>>
    /\ UNCHANGED <<agentVars, streamVars, execVars, memVars, sessionVars, fanVars>>

\* --------------------------------------------------------------- task file
\* The content todo_write starts from when there is no task file.
TaskFileHeader == <<"# Project Tasks", "\n", "\n">>

\* The checkbox of a status.
Checkbox(st) ==
    IF st = "done" THEN <<"[", "x", "]">>
    ELSE IF st = "progress" THEN <<"[", "/", "]">>
    ELSE <<"[", " ", "]">>

\* `- ${checkbox} ${task}`
TaskLine(checkbox, task) == <<"-", " ">> \o checkbox \o <<" ">> \o task

\* The length of a match of the regular expression of a task.
TaskMatchLen(task) == 8 + Len(task)

\* new RegExp(`- \\[ [x/ ] \\] ${escapedTask}`, 'i') matches the content at
\* i: a dash, a space, an opening bracket, a space, one of x, / and space, a
\* space, a closing bracket, a space and the task, whatever the case.
TaskRegexMatchesAt(content, task, i) ==
    /\ i + TaskMatchLen(task) - 1 <= Len(content)
    /\ SubSeq(content, i, i + 3) = <<"-", " ", "[", " ">>
    /\ toLowerCase(<<content[i + 4]>>)[1] \in {"x", "/", " "}
    /\ SubSeq(content, i + 5, i + 7) = <<" ", "]", " ">>
    /\ toLowerCase(SubSeq(content, i + 8, i + 7 + Len(task))) = toLowerCase(task)

\* regex.test(content)
TaskRegexTest(content, task) ==
    \E i \in 1..Len(content) : TaskRegexMatchesAt(content, task, i)

\* content.replace(regex, replacement): the first match is replaced.
TaskRegexReplace(content, task, replacement) ==
    IF ~TaskRegexTest(content, task) THEN content
    ELSE LET i == CHOOSE x \in 1..Len(content) :
                      /\ TaskRegexMatchesAt(content, task, x)
                      /\ \A y \in 1..(x - 1) : ~TaskRegexMatchesAt(content, task, y)
             before == SubSeq(content, 1, i - 1)
             matched == SubSeq(content, i, i + TaskMatchLen(task) - 1)
             after == SubSeq(content, i + TaskMatchLen(task), Len(content))
         IN  before \o GetSubstitution(matched, before, after, replacement) \o after

\* content.replace(regex, '') with the regular expression of delete, which
\* is global and takes a line end after the task if there is one: the
\* content from position i on without the matches.
RECURSIVE TaskRegexRemoveAll(_, _, _)
TaskRegexRemoveAll(content, task, i) ==
    IF i > Len(content) THEN <<>>
    ELSE IF TaskRegexMatchesAt(content, task, i)
    THEN LET end == i + TaskMatchLen(task)
         IN  TaskRegexRemoveAll(content, task,
                 IF end <= Len(content) /\ content[end] = "\n" THEN end + 1 ELSE end)
    ELSE <<content[i]>> \o TaskRegexRemoveAll(content, task, i + 1)

\* todo_write({action, task, status}): the content written to the task file.
todo_write(f, action, task, st) ==
    LET content == IF f.exists THEN f.content ELSE TaskFileHeader
    IN  IF action = "add"
        THEN content \o TaskLine(<<"[", " ", "]">>, task) \o <<"\n">>
        ELSE IF action = "update"
        THEN (IF TaskRegexTest(content, task)
              THEN TaskRegexReplace(content, task, TaskLine(Checkbox(st), task))
              ELSE content \o TaskLine(Checkbox(st), task) \o <<"\n">>)
        ELSE IF action = "delete"
        THEN TaskRegexRemoveAll(content, task, 1)
        ELSE content

MaxTodoCalls == 3

\* await taskTools.todo_write({action, task, status})
TodoWrite(action, task, st) ==
    /\ Len(todoCalls) < MaxTodoCalls
    /\ taskFile' = [exists |-> TRUE,
                    content |-> todo_write(taskFile, action, task, st)]
    /\ todoCalls' = Append(todoCalls, [action |-> action, task |-> task,
                                       status |-> st,
                                       before |-> IF taskFile.exists
                                                  THEN taskFile.content ELSE <<>>])
    /\ UNCHANGED <<file, fileCall>>
    /\ UNCHANGED <<agentVars, streamVars, execVars, memVars, sessionVars, fanVars>>

vars == <<agentVars, streamVars, execVars, memVars, sessionVars, fanVars, fsVars>>

Init == AgentInit /\ MemStarted /\ StreamIdle /\ ExecIdle /\ SessionIdle /\ FanIdle /\ FsIdle

Next ==
    \/ \E prompt \in Prompts : StartRun(prompt)
    \/ LoopHead
    \/ StreamRejects
    \/ StreamResolves
    \/ BeginTool
    \/ ExecAttempt

\* The agent: runs of run() against the stubs.
Spec == Init /\ [][Next]_vars

\* The scripts of runs that reach the last iteration: tool calls in the first
\* 19 or in all 20 iterations, no provider failure.
CeilingScripts ==
    [k : {MAX_ITERATIONS - 1, MAX_ITERATIONS}, calls : CallLists,
     failAt : {0}, failErr : {<<>>}, handlerFails : 0..1, big : {FALSE}]

CeilingAgentInit ==
    /\ \E c \in SessionConfigs :
        /\ mode = c[1]
        /\ activeModel = c[2]
        /\ manualOverride = c[3]
    /\ script \in CeilingScripts
    /\ isThinking = FALSE
    /\ agentIterations = 0
    /\ contextUsed = 0
    /\ status = "IDLE"
    /\ history = <<>>
    /\ pc = "idle"
    /\ run = IdleRun
    /\ last = NoOutcome
    /\ warned = FALSE
    /\ provCalls = 0
    /\ handlerCalls = 0
    /\ runs = 0
    /\ appended = <<>>
    /\ calls = <<>>
    /\ dispatched = <<>>
    /\ histAtCall = <<>>
    /\ prev = "none"

CeilingInit == CeilingAgentInit /\ MemStarted /\ StreamIdle /\ ExecIdle /\ SessionIdle /\ FanIdle /\ FsIdle

CeilingNext ==
    \/ \E prompt \in Prompts : StartRun(prompt)
    \/ LoopHead
    \/ StreamResolves
    \/ BeginTool
    \/ ExecAttempt

\* The agent in runs that last until the 20th iteration.
CeilingSpec == CeilingInit /\ [][CeilingNext]_vars

MemorySpecInit == MemoryInit /\ AgentIdle /\ StreamIdle /\ ExecIdle /\ SessionIdle /\ FanIdle /\ FsIdle

MemoryNext ==
    \/ \E content \in {<<"next">>, LongOutput} : AddUser(content)
    \/ \E a \in {<<ShortAnswer, <<>>>>, <<<<>>, PatternCalls>>} :
          AddAssistant(a[1], a[2])
    \/ \E content \in {<<"ok">>, LongOutput, LongErrorOutput} :
          AddToolResult("c1", content)
    \/ Prune
    \/ Clear
    \/ GetMessages
    \/ \E id \in SessionIds : LoadFromDisk(id)

\* The memory: calls of its methods on the histories of a session.
MemorySpec == MemorySpecInit /\ [][MemoryNext]_vars

DecoderInit == StreamInit /\ AgentIdle /\ MemIdle /\ ExecIdle /\ SessionIdle /\ FanIdle /\ FsIdle

StreamNext ==
    \/ \E n \in 1..(Len(wire) - pos) : Deliver(n)
    \/ End

\* The decoder: one response of status 200, cut into chunks in every way.
StreamSpec == DecoderInit /\ [][StreamNext]_vars

ErrorInit == ResponseInit /\ AgentIdle /\ MemIdle /\ ExecIdle /\ SessionIdle /\ FanIdle /\ FsIdle

ErrorNext ==
    \/ \E n \in 1..(Len(wire) - pos) : DeliverError(n)
    \/ EndError
    \/ \E n \in 1..(Len(wire) - pos) : Deliver(n)
    \/ End

\* One response of any status, its body cut into chunks in every way.
ErrorSpec == ErrorInit /\ [][ErrorNext]_vars

\* The request has been written; no response yet.
TransportInit == StreamIdle /\ AgentIdle /\ MemIdle /\ ExecIdle /\ SessionIdle /\ FanIdle /\ FsIdle

TransportNext ==
    \/ \E code \in ErrorStatuses \cup {200} :
            \E body \in ResponseBodies(code) : Response(code, body)
    \/ \E n \in 1..(Len(wire) - pos) : Deliver(n)
    \/ End
    \/ \E n \in 1..(Len(wire) - pos) : DeliverError(n)
    \/ EndError
    \/ ResponseError
    \/ RequestError
    \/ Timeout

\* One call of stream() under every behaviour of the transport. A request
\* that stays open does not stay idle for ever: the timer of the socket
\* (timeout: DEFAULT_TIMEOUT) fires.
TransportSpec == TransportInit /\ [][TransportNext]_vars /\ WF_vars(Timeout)

\* The problems, contexts and answers of the fan-out.
Problems == { <<"is", "the", "cache", "safe">>, <<"why", "is", "it", "slow">> }

Contexts == { <<>>, << [role |-> "user", content |-> <<"earlier", "question">>] >> }

PathTexts == { <<"path", "answer">>, <<>> }

FanInit == AgentIdle /\ MemIdle /\ StreamIdle /\ ExecIdle /\ SessionIdle /\ FanIdle /\ FsIdle

FanNext ==
    \/ \E problem \in Problems, context \in Contexts :
            AggregateReasoning(problem, context)
    \/ \E i \in 1..numPaths, text \in PathTexts : PathResolves(i, text)
    \/ \E i \in 1..numPaths : PathRejects(i, <<"Request timed out">>)
    \/ \E text \in PathTexts : DistillResolves(text)
    \/ DistillRejects(<<"Request timed out">>)
    \/ \E proposal \in Problems : SpawnCouncil(proposal, DefaultPersonas)

\* The fan-outs: one call of aggregateReasoning or of spawnCouncil, the
\* provider calls of the sub-agents completing in any order.
FanSpec == FanInit /\ [][FanNext]_vars

\* The session states a user can reach before a swarm is started: any valid
\* mode, no model locked or one of the user's models locked.
SwarmInit ==
    /\ mode \in VALID_MODES
    /\ activeModel \in UserModels \cup {""}
    /\ manualOverride = (activeModel # "")
    /\ isThinking = FALSE
    /\ agentIterations = 0
    /\ contextUsed = 0
    /\ status = "IDLE"
    /\ pc = "idle"
    /\ run = IdleRun
    /\ last = NoOutcome
    /\ warned = FALSE
    /\ script = [k |-> 0, calls |-> <<>>, failAt |-> 0, failErr |-> <<>>,
                 handlerFails |-> 0, big |-> FALSE]
    /\ provCalls = 0
    /\ handlerCalls = 0
    /\ runs = 0
    /\ appended = <<>>
    /\ calls = <<>>
    /\ dispatched = <<>>
    /\ histAtCall = <<>>
    /\ prev = "none"
    /\ MemIdle /\ StreamIdle /\ ExecIdle /\ SessionIdle /\ FanIdle /\ FsIdle

SwarmNext ==
    \/ \E useFreeModels \in BOOLEAN : SwarmStart(useFreeModels)
    \/ SwarmNextPhase
    \/ \E threw \in BOOLEAN : SwarmEnd(threw)

\* runSwarmTask alone, from every session state, ending after any phase.
SwarmSpec == SwarmInit /\ [][SwarmNext]_vars

\* The contents of the file under edit: lines as in the multi-chunk test, with
\* a second occurrence of a line, and a shorter one.
FileContents ==
    { <<"Line 1", "\n", "Line 2", "\n", "Line 3", "\n", "Line 2">>,
      <<"Line 2", "\n", "Line 4">>,
      <<"Line 3">> }

\* The chunks: a line that occurs (twice in the first file), one that occurs
\* in one file only, one that occurs only after the first chunk was applied,
\* a replacement that quotes shell text, a deletion.
Chunks ==
    { [search |-> <<"Line 2">>, replace |-> <<"Line TWO">>],
      [search |-> <<"Line 4">>, replace |-> <<"Line FOUR">>],
      [search |-> <<"Line TWO">>, replace |-> <<"Line 2">>],
      [search |-> <<"Line 3">>, replace |-> <<"echo ", "$$", " > pid">>],
      [search |-> <<"Line 2", "\n">>, replace |-> <<>>] }

MaxChunks == 2

EditArguments ==
    { [hasChunks |-> TRUE, chunks |-> c, legacy |-> FALSE, search |-> <<>>,
       replace |-> <<>>] : c \in UNION { [1..n -> Chunks] : n \in 0..MaxChunks } }
    \cup { [hasChunks |-> FALSE, chunks |-> <<>>, legacy |-> TRUE,
            search |-> c.search, replace |-> c.replace] : c \in Chunks }
    \cup { [hasChunks |-> FALSE, chunks |-> <<>>, legacy |-> FALSE,
            search |-> <<>>, replace |-> <<>>] }

\* The text of a diff with the given blocks.
RECURSIVE DiffText(_)
DiffText(blocks) ==
    IF blocks = <<>> THEN <<>>
    ELSE <<SearchMarker, "\n">> \o Head(blocks).search \o <<"\n", Divider, "\n">>
         \o Head(blocks).replace \o <<"\n", ReplaceMarker, "\n">>
         \o DiffText(Tail(blocks))

\* Diffs: well-formed ones of one and two blocks, one without its end marker,
\* one without any block.
Diffs ==
    { DiffText(c) : c \in UNION { [1..n -> Chunks] : n \in 1..MaxChunks } }
    \cup { <<SearchMarker, "\n", "Line 2", "\n", Divider, "\n", "Line TWO">>,
           <<"replace", " ", "Line 2">> }

FileInit ==
    /\ file \in { [exists |-> TRUE, content |-> c, writes |-> 0] : c \in FileContents }
                \cup { [exists |-> FALSE, content |-> <<>>, writes |-> 0] }
    /\ fileCall = NoFileCall
    /\ taskFile = [exists |-> FALSE, content |-> <<>>]
    /\ todoCalls = <<>>
    /\ AgentIdle /\ MemIdle /\ StreamIdle /\ ExecIdle /\ SessionIdle /\ FanIdle

FileNext ==
    \/ \E args \in EditArguments : EditFile(args)
    \/ \E diff \in Diffs : ApplyDiff(diff)

\* One call of edit_file or of apply_diff on a file.
FileSpec == FileInit /\ [][FileNext]_vars

\* The tasks: two texts, one of them also in lower case.
Tasks == { <<"Fix", " ", "bug">>, <<"fix", " ", "bug">>, <<"Write", " ", "tests">> }

Statuses == {"todo", "progress", "done"}

\* A task file written by hand, with spaces around the mark of the checkbox.
HandWrittenTaskFile ==
    TaskFileHeader \o <<"-", " ", "[", " ", "x", " ", "]", " ", "fix", " ", "bug", "\n">>

TodoInit ==
    /\ taskFile \in { [exists |-> FALSE, content |-> <<>>],
                      [exists |-> TRUE, content |-> HandWrittenTaskFile] }
    /\ todoCalls = <<>>
    /\ file = [exists |-> FALSE, content |-> <<>>, writes |-> 0]
    /\ fileCall = NoFileCall
    /\ AgentIdle /\ MemIdle /\ StreamIdle /\ ExecIdle /\ SessionIdle /\ FanIdle

\* status defaults to 'todo' and is read by update only.
TodoNext ==
    \/ \E task \in Tasks : TodoWrite("add", task, "todo")
    \/ \E task \in Tasks, st \in Statuses : TodoWrite("update", task, st)
    \/ \E task \in Tasks : TodoWrite("delete", task, "todo")

\* Calls of todo_write one after another on one task file.
TodoSpec == TodoInit /\ [][TodoNext]_vars

ExecutorInit == ExecIdle /\ AgentIdle /\ MemIdle /\ StreamIdle /\ SessionIdle /\ FanIdle /\ FsIdle

ExecutorNext ==
    \/ \E name \in RegisterNames, handler \in RegisterHandlers :
            RegisterTool(name, handler)
    \/ \E name \in ExecuteNames, outcome \in Outcomes : Execute(name, outcome)

\* The executor: registerTool and execute calls in any order.
ExecutorSpec == ExecutorInit /\ [][ExecutorNext]_vars

\* The session as the constructor of the state leaves it: mode plan, no model
\* locked.
SessionInit == AgentIdle /\ MemIdle /\ StreamIdle /\ ExecIdle /\ SessionIdle /\ FanIdle /\ FsIdle

\* The modes and model ids the operations are called with: the valid modes
\* and one setMode rejects, a model id and a missing one.
ModeArguments == VALID_MODES \cup {"build"}

ModelArguments == UserModels \cup {""}

SessionNext ==
    \/ \E m \in ModeArguments : SetMode(m)
    \/ \E modelId \in ModelArguments : SetModel(modelId)
    \/ ClearModelOverride
    \/ \E useFreeModels \in BOOLEAN : SwarmStart(useFreeModels)
    \/ SwarmNextPhase
    \/ \E threw \in BOOLEAN : SwarmEnd(threw)
    \/ \E prompt \in Prompts : Route(prompt)

\* The session state: its operations and the router in any order, the menu
\* being open to the user while a swarm runs.
SessionSpec == SessionInit /\ [][SessionNext]_vars

RouterNext ==
    \/ \E m \in ModeArguments : SetMode(m)
    \/ \E prompt \in RouterPrompts : Route(prompt)
    \/ \E prompt \in RouterPrompts : ClassifyIntent(prompt)

\* The router: classifyIntent and route on the prompts, in every mode.
RouterSpec == SessionInit /\ [][RouterNext]_vars

\* ------------------------------------------------------------ the run claims
RunEnded == pc = "idle" /\ runs >= 1

\* The run ended by returning the answer of a response without tool calls.
ReturnedFinal ==
    RunEnded /\ last.outcome = "returned" /\ run.response.toolCalls = <<>>
    /\ run.response.text = FinalText

\* The turns of round r (an assistant turn and n tool turns) start here in the
\* sequence a run appends.
RoundBase(r, n) == 2 + (r - 1) * (n + 1)

\* The sequence a run of k tool rounds and a final answer appends.
AppendedAsClaimed(k) ==
    LET n == Len(script.calls)
    IN  /\ Len(appended) = 1 + k * (n + 1) + 1
        /\ appended[1] = UserTurn(run.prompt)
        /\ \A r \in 1..k :
            /\ appended[RoundBase(r, n)] = AssistantTurn(<<>>, script.calls)
            /\ \A j \in 1..n :
                /\ appended[RoundBase(r, n) + j].role = "tool"
                /\ appended[RoundBase(r, n) + j].tool_call_id = script.calls[j].id
        /\ appended[Len(appended)] = AssistantTurn(FinalText, <<>>)

\* C1: a run in which the provider returned k responses with tool calls and
\* then one without returns iterations = k + 1 and the final text, and has
\* appended the user turn, per round the assistant turn and one tool turn per
\* invocation in order with the invocation's id, and the final assistant turn;
\* the stored history is that sequence when nothing was trimmed or pruned.
C1_RunAppendsRoundsInOrder ==
    ReturnedFinal =>
        /\ last.iterations = script.k + 1
        /\ Len(calls) = script.k + 1
        /\ last.text = FinalText
        /\ AppendedAsClaimed(script.k)
        /\ (runs = 1 /\ ~script.big) => history = appended

C1_Witness ==
    /\ ReturnedFinal
    /\ script.k = 2
    /\ Len(script.calls) = 2
    /\ last.iterations = 3
    /\ Len(appended) = 8

\* Every tool turn of h answers an invocation of the assistant turn before its
\* block, in order, and every assistant turn with invocations has its block.
WellPaired(h) ==
    /\ \A i \in 1..Len(h) :
        h[i].role = "tool" =>
            \E a \in 1..(i - 1) :
                /\ h[a].role = "assistant"
                /\ i - a <= Len(h[a].tool_calls)
                /\ \A j \in (a + 1)..i : h[j].role = "tool"
                /\ h[i].tool_call_id = h[a].tool_calls[i - a].id
    /\ \A a \in 1..Len(h) :
        (h[a].role = "assistant" /\ Len(h[a].tool_calls) > 0) =>
            /\ a + Len(h[a].tool_calls) <= Len(h)
            /\ \A j \in 1..Len(h[a].tool_calls) :
                /\ h[a + j].role = "tool"
                /\ h[a + j].tool_call_id = h[a].tool_calls[j].id

\* C2: between runs, the tool turns of the stored history form blocks that
\* follow the assistant turn they answer, with its invocation ids in order,
\* and no assistant turn with invocations lacks its block.
C2_ToolTurnsFollowTheirAssistantTurn == pc = "idle" => WellPaired(history)

\* The failing call of the stub was issued by this run, as its j-th call.
FailedCallOfRun == script.failAt - (provCalls - Len(calls))

ProviderFailedInRun ==
    /\ runs >= 1
    /\ script.failAt > 0
    /\ FailedCallOfRun >= 1
    /\ FailedCallOfRun <= Len(calls)
    /\ (pc = "stream" => FailedCallOfRun < Len(calls))

\* C3: after a provider call failed with the capacity signature, the run has
\* issued exactly one further call for that iteration, with the fallback model
\* of the mode; every later call uses that model, and the run returns it.
C3_CapacityFailureRetriesOnFallback ==
    (ProviderFailedInRun /\ IsCapacityError(script.failErr)) =>
        LET j == FailedCallOfRun
        IN  /\ Len(calls) > j
            /\ calls[j + 1].iteration = calls[j].iteration
            /\ \A c \in (j + 1)..Len(calls) : calls[c].model = fallbackModel(run.mode)
            /\ \A c \in (j + 2)..Len(calls) : calls[c].iteration > calls[j].iteration
            /\ last.outcome = "returned" => last.model = fallbackModel(run.mode)

\* C4: after a provider call failed without the capacity signature the run
\* has rejected with that error and made no further call, the stored turns are
\* those of the moment of the call, isThinking is false; run() can be called
\* again, and a run that follows a rejected one and gets a final answer
\* behaves as any run does.
C4_OtherFailurePropagatesAndSessionStaysUsable ==
    /\ (ProviderFailedInRun /\ ~IsCapacityError(script.failErr)) =>
        /\ pc = "idle"
        /\ last.outcome = "threw"
        /\ last.error = script.failErr
        /\ Len(calls) = FailedCallOfRun
        /\ history = histAtCall
        /\ ~isThinking
        /\ status = "IDLE"
        /\ runs < MaxRuns => ENABLED (\E p \in Prompts : StartRun(p))
    /\ (prev = "threw" /\ pc # "idle") => isThinking
    /\ (prev = "threw" /\ ReturnedFinal) =>
        /\ last.iterations = script.k + 1
        /\ AppendedAsClaimed(script.k)
        /\ Last(history) = AssistantTurn(FinalText, <<>>)

C4_Witness ==
    /\ prev = "threw"
    /\ ReturnedFinal
    /\ script.failAt = 2
    /\ ~IsCapacityError(script.failErr)
    /\ script.k = 2
    /\ Len(history) > Len(appended)

\* C5: a failed invocation never makes run() throw: a run rejects only with
\* the error of a provider call, and once a round is over every invocation of
\* it has its tool turn.
C5_ToolFailureNeverAbortsRun ==
    RunEnded =>
        /\ last.outcome = "threw" =>
            last.error \in ProviderErrors \cup {TypeErrorConst}
        /\ Len(run.response.toolCalls) > 0 =>
            run.tcIdx = Len(run.response.toolCalls)

\* The entries of the dispatch log for invocation j of iteration r.
DispatchesOf(r, j) ==
    {d \in 1..Len(dispatched) :
        dispatched[d].iteration = r /\ dispatched[d].slot = j}

\* The iterations of this run whose response carried tool calls.
ToolRounds ==
    {c \in 1..Len(calls) :
        /\ calls[c].iteration <= script.k
        /\ (c = Len(calls) => (pc # "stream" /\ ~ProviderFailedInRun))}

\* C6: once a run is over, every invocation of every tool round of it was
\* dispatched, with at most 3 executor.execute calls for a state-mutating tool
\* and exactly one for any other, and has exactly one tool turn.
C6_EveryInvocationDispatchedAndRecorded ==
    RunEnded =>
        \A r \in ToolRounds : \A j \in 1..Len(script.calls) :
            /\ Cardinality(DispatchesOf(r, j)) = 1
            /\ \A d \in DispatchesOf(r, j) :
                /\ dispatched[d].attempts <= maxAttempts(script.calls[j].name)
                /\ script.calls[j].name \notin CRITICAL_TOOLS =>
                    dispatched[d].attempts = 1

\* What holds of the robustness loop for the invocations that reach it: the
\* bound on the attempts, and no attempt after a success.
RetryPolicyOfDispatched ==
    \A d \in 1..Len(dispatched) :
        /\ dispatched[d].attempts >= 1
        /\ dispatched[d].attempts <= maxAttempts(dispatched[d].name)
        /\ ~dispatched[d].success =>
            dispatched[d].attempts = maxAttempts(dispatched[d].name)

IterationsBounded ==
    /\ run.iterations <= MAX_ITERATIONS
    /\ agentIterations <= MAX_ITERATIONS
    /\ Len(calls) <= MAX_ITERATIONS
    /\ (RunEnded /\ last.outcome = "returned" /\ ~ReturnedFinal) =>
        /\ last.iterations = MAX_ITERATIONS
        /\ last.text = <<>>
        /\ warned
        /\ Len(calls) = MAX_ITERATIONS

\* The step after the 20th tool round: no provider call, a normal return.
StopsAfterCeiling ==
    (pc = "loop" /\ run.iterations = MAX_ITERATIONS) =>
        /\ pc' = "idle"
        /\ provCalls' = provCalls
        /\ last'.outcome = "returned"
        /\ last'.iterations = MAX_ITERATIONS
        /\ last'.text = <<>>
        /\ warned'

\* C7: a run never makes more than 20 iterations; a run that ends without a
\* final answer and without throwing has made exactly 20, returns empty text
\* and has emitted the maximum-iterations warning; after the 20th tool round
\* the run makes no further provider call and returns normally.
C7_IterationCeiling == []IterationsBounded /\ [][StopsAfterCeiling]_vars

C7_Witness ==
    /\ RunEnded
    /\ last.outcome = "returned"
    /\ last.iterations = MAX_ITERATIONS
    /\ last.text = <<>>
    /\ warned
    /\ Len(dispatched) = MAX_ITERATIONS * Len(script.calls)

\* ------------------------------------------------------- the decoder claims
\* The decoder after the whole stream arrived as one chunk and the transport
\* ended.
SingleChunk == OnEnd(OnData(NewDecoder, wire))

\* C8: however the stream is cut into chunks, the call resolves with the text
\* and the tool-call list, and has made the onDelta calls, of the delivery as
\* a single chunk.
C8_ChunkingDoesNotChangeTheResult ==
    ended =>
        /\ dec.settled = SingleChunk.settled
        /\ dec.resText = SingleChunk.resText
        /\ ResultTools(dec) = ResultTools(SingleChunk)
        /\ dec.deltas = SingleChunk.deltas

\* The payload lines of a decoded stream after which nothing but separators,
\* comments and the sentinel follow, and no byte above ASCII.
IsAscii(bytes) == \A i \in 1..Len(bytes) : bytes[i] \notin {"xC3", "xA9"}

\* What holds of the decoder: the chunking is invisible for a stream of ASCII
\* bytes in which no payload follows the sentinel.
ChunkingInvisibleUntilSentinel ==
    (ended /\ IsAscii(wire) /\ SingleChunk.events = OnEnd(OnData(NewDecoder,
                                  wire \o <<"\n">>)).events
           /\ (SingleChunk.doneSeen => dec.events = SingleChunk.events)) =>
        /\ dec.resText = SingleChunk.resText
        /\ ResultTools(dec) = ResultTools(SingleChunk)
        /\ dec.deltas = SingleChunk.deltas

\* The tool-call deltas the decoder has interpreted, in arrival order.
RECURSIVE DeltasOf(_)
DeltasOf(events) ==
    IF events = <<>> THEN <<>> ELSE Head(events).deltas \o DeltasOf(Tail(events))

\* The fragments `field` of the deltas with index i, concatenated in order.
RECURSIVE Fragments(_, _, _)
Fragments(deltas, i, field) ==
    IF deltas = <<>> THEN <<>>
    ELSE (IF Head(deltas).index = i THEN Head(deltas)[field] ELSE <<>>)
         \o Fragments(Tail(deltas), i, field)

HighestIndex(deltas) ==
    CHOOSE m \in {deltas[k].index : k \in 1..Len(deltas)} :
        \A k \in 1..Len(deltas) : deltas[k].index <= m

\* C9: the tool-call list has (highest index seen + 1) slots; the name and the
\* arguments of slot i are the concatenation, in arrival order, of the
\* fragments of the deltas with index i; a slot no delta named is empty.
C9_SlotsAreConcatenationsByIndex ==
    LET deltas == DeltasOf(dec.events)
    IN  /\ deltas = <<>> => dec.tools = <<>>
        /\ deltas # <<>> =>
            /\ Len(dec.tools) = HighestIndex(deltas) + 1
            /\ \A i \in 1..Len(dec.tools) :
                /\ dec.tools[i].name = Fragments(deltas, i - 1, "name")
                /\ dec.tools[i].arguments = Fragments(deltas, i - 1, "arguments")
                /\ (\A k \in 1..Len(deltas) : deltas[k].index # i - 1) =>
                    dec.tools[i] = EmptySlot

C9_Witness ==
    /\ Len(dec.tools) = 3
    /\ dec.tools[1].name = <<"r", "s">>
    /\ dec.tools[1].arguments = <<"b">>
    /\ dec.tools[2] = EmptySlot
    /\ dec.tools[3].name = <<"w">>

\* The text deltas of the events, concatenated.
RECURSIVE ContentOf(_)
ContentOf(events) ==
    IF events = <<>> THEN <<>> ELSE Head(events).content \o ContentOf(Tail(events))

\* The lines of a byte stream that end with a line end.
RECURSIVE CompleteLines(_)
CompleteLines(bytes) ==
    LET b == IndexOfNewline(bytes)
    IN  IF b = 0 THEN <<>>
        ELSE <<SubSeq(bytes, 1, b - 1)>>
             \o CompleteLines(SubSeq(bytes, b + 1, Len(bytes)))

\* A line carries an event payload: the prefix, and JSON with a choice.
IsPayloadLine(line) ==
    /\ StartsWith(StrTrim(line), Prefix)
    /\ LET ev == ParseEvent(StrTrim(SubSeq(StrTrim(line), Len(Prefix) + 1,
                                             Len(StrTrim(line)))))
       IN  ev.ok /\ ev.hasChoice

HasSentinelLine(bytes) ==
    \E i \in 1..Len(CompleteLines(bytes)) :
        LET line == StrTrim(CompleteLines(bytes)[i])
        IN  /\ StartsWith(line, Prefix)
            /\ StrTrim(SubSeq(line, Len(Prefix) + 1, Len(line))) = Sentinel

PayloadLines(bytes) ==
    Cardinality({i \in 1..Len(CompleteLines(bytes)) :
                    IsPayloadLine(CompleteLines(bytes)[i])})

\* C10: when the transport ends and no sentinel has arrived, the call is
\* resolved, with the text and the tool-call list accumulated from every
\* event payload line received.
C10_EndWithoutSentinelResolves ==
    (ended /\ ~HasSentinelLine(wire)) =>
        /\ dec.settled = "resolved"
        /\ Len(dec.events) = PayloadLines(wire)
        /\ dec.resText = ContentOf(dec.events)
        /\ ResultTools(dec) = ApplyDeltas(<<>>, DeltasOf(dec.events))

C10_Witness ==
    /\ ended
    /\ ~HasSentinelLine(wire)
    /\ dec.settled = "resolved"
    /\ Len(ResultTools(dec)) = 3
    /\ dec.buffer # <<>>

\* C11: lines that are not interpretable never make the call reject, and the
\* call resolves with the text and the tool-call list of the same stream
\* without these lines.
C11_MalformedLinesAreIgnored ==
    /\ dec.settled \in {"pending", "resolved"}
    /\ ended =>
        /\ dec.settled = clean.settled
        /\ dec.resText = clean.resText
        /\ ResultTools(dec) = ResultTools(clean)

\* What holds of the decoder: such lines are ignored as long as no payload
\* is interpreted after the sentinel.
MalformedIgnoredUntilSentinel ==
    /\ dec.settled \in {"pending", "resolved"}
    /\ (ended /\ Len(dec.events) = Len(SingleChunk.events)) =>
        /\ dec.settled = clean.settled
        /\ dec.resText = clean.resText
        /\ ResultTools(dec) = ResultTools(clean)
        /\ dec.deltas = clean.deltas

\* The message the provider supplied in the body of the response, or the raw
\* body when the body is not JSON or holds no message.
SuppliedMessage ==
    LET body == Utf8(wire)
    IN  IF ParseErrorBody(body).ok /\ ParseErrorBody(body).message # <<>>
        THEN ParseErrorBody(body).message ELSE body

\* C12: a response whose status is not 200 never resolves the call and never
\* invokes onDelta; once it has ended the call is rejected with a failure that
\* carries the status code and the message the provider supplied (the raw
\* body when it is not JSON); anomalies in a stream of status 200 never
\* reject.
C12_OtherStatusRejectsWithCodeAndMessage ==
    /\ statusCode # 200 =>
        /\ dec.settled # "resolved"
        /\ dec.deltas = <<>>
        /\ ended =>
            /\ dec.settled = "rejected"
            /\ dec.error = ApiError(statusCode, SuppliedMessage)
    /\ statusCode = 200 => dec.settled # "rejected"

\* What holds of such a response: the failure carries the status code and the
\* body as the chunks decoded it, cut to ErrorBodyMax characters when it is
\* not JSON.
OtherStatusRejectsWithCode ==
    /\ statusCode # 200 =>
        /\ dec.settled # "resolved"
        /\ dec.deltas = <<>>
        /\ ended =>
            /\ dec.settled = "rejected"
            /\ dec.error.status = statusCode
            /\ (IsAscii(wire) /\ Len(wire) <= ErrorBodyMax) =>
                dec.error = ApiError(statusCode, SuppliedMessage)
    /\ statusCode = 200 => dec.settled # "rejected"

\* The last execute found a registered handler and the handler threw or
\* rejected.
RegisteredHandlerFailed ==
    /\ lastCall.name # ""
    /\ \E i \in 1..Len(lastCall.keys) : lastCall.keys[i] = lastCall.name
    /\ lastCall.outcome.kind \in {"throws", "rejects"}

C14_UnknownToolListsRegisteredNames ==
    (lastCall.name # ""
     /\ \A i \in 1..Len(lastCall.keys) : lastCall.keys[i] # lastCall.name) =>
        /\ execResult.success = FALSE
        /\ execResult.result = <<>>
        /\ lastCall.handler = ""
        /\ execResult.error
             = <<"Unknown tool:", lastCall.name, "Available tools:">> \o lastCall.keys
        /\ Len(lastCall.keys) >= 1

\* What holds of execute for a name that neither is registered nor names a
\* property objects inherit.
UnknownToolListsRegisteredNames ==
    (lastCall.name # "" /\ lastCall.name \notin DOMAIN ObjectPrototype
     /\ \A i \in 1..Len(lastCall.keys) : lastCall.keys[i] # lastCall.name) =>
        /\ execResult.success = FALSE
        /\ execResult.result = <<>>
        /\ lastCall.handler = ""
        /\ execResult.error
             = <<"Unknown tool:", lastCall.name, "Available tools:">> \o lastCall.keys
        /\ Len(lastCall.keys) >= 1

Min(a, b) == IF a <= b THEN a ELSE b

LastTurns(s, n) == SubSeq(s, Len(s) - n + 1, Len(s))

\* C15: the stored history never holds more than MAX_MESSAGES turns, and after
\* the additions of a run with no prune or clear between them it holds exactly
\* the min(n, MAX_MESSAGES) most recently added turns, in the order added.
C15_HistoryHoldsTheMostRecentTurns ==
    /\ Len(history) <= MAX_MESSAGES
    /\ (runs = 1 /\ ~script.big) =>
           history = LastTurns(appended, Min(Len(appended), MAX_MESSAGES))

C15_Witness ==
    /\ runs = 1
    /\ ~script.big
    /\ Len(appended) > MAX_MESSAGES + 1
    /\ Len(history) = MAX_MESSAGES
    /\ history[1] = appended[Len(appended) - MAX_MESSAGES + 1]
    /\ Last(history).role = "tool"

IsMarker(turn) == \E n \in 0..MAX_MESSAGES : turn = PrunedMarker(n)

Markers(h) == Cardinality({i \in 1..Len(h) : IsMarker(h[i])})

Ceil2(k) == (k + 1) \div 2

\* The turns prune(0.5) leaves of the history `before`: with keep =
\* floor(n/2), the first keep - ceil(keep/2) turns, one marker turn stating
\* that n - keep turns were dropped, and the last ceil(keep/2) turns.
PrunedShape(before, after) ==
    LET n == Len(before)
        keep == n \div 2
        first == keep - Ceil2(keep)
    IN  /\ Len(after) = n \div 2 + 1
        /\ Len(after) < n
        /\ SubSeq(after, 1, first) = SubSeq(before, 1, first)
        /\ after[first + 1] = PrunedMarker(n - keep)
        /\ SubSeq(after, first + 2, Len(after))
             = SubSeq(before, n - Ceil2(keep) + 1, n)

\* C16 as stated: prune(0.5) on a stored history of n >= 10 turns leaves the
\* turns above, and the resulting history contains exactly one marker turn.
C16_PruneLeavesExactlyOneMarker ==
    (lastOp.op = "prune" /\ Len(lastOp.before) >= MinPruneLen) =>
        /\ PrunedShape(lastOp.before, history)
        /\ Markers(history) = 1

\* C16, amended: prune(0.5) on a stored history of n >= 10 turns leaves
\* floor(n/2)+1 turns: the first keep - ceil(keep/2) turns unchanged, one new
\* marker turn stating that n - keep turns were dropped, the last ceil(keep/2)
\* turns unchanged; the call inserts exactly one marker turn, so the result
\* holds one more marker turn than the turns it retained.
C16_PruneInsertsExactlyOneMarker ==
    (lastOp.op = "prune" /\ Len(lastOp.before) >= MinPruneLen) =>
        LET n == Len(lastOp.before)
            keep == n \div 2
        IN  /\ PrunedShape(lastOp.before, history)
            /\ Markers(history)
                 = 1 + Markers(SubSeq(lastOp.before, 1, keep - Ceil2(keep)))
                     + Markers(SubSeq(lastOp.before, n - Ceil2(keep) + 1, n))

C16_Witness ==
    /\ lastOp.op = "prune"
    /\ Len(lastOp.before) = 13
    /\ Len(history) = 7
    /\ history[3] = lastOp.before[3]
    /\ IsMarker(history[4])
    /\ history[5] = lastOp.before[11]
    /\ Markers(history) = 1

\* C17: building the outbound message list never changes the stored turns:
\* after a getMessages call, however many came before it, the stored list and
\* the content of each stored turn are what they were before the call.
C17_GetMessagesLeavesStoredTurns ==
    lastOp.op = "getMessages" => history = lastOp.before

Shortened(i) == outbound[i + 1].content # history[i].content

C17_Witness ==
    /\ lastOp.op = "getMessages"
    /\ memOps >= 2
    /\ \E i \in 1..Len(history) : Shortened(i)
    /\ history = lastOp.before
    /\ history \in Histories

IsWord(c) == c # "\n"

\* The turns compression has to leave alone: the three most recent, the user
\* turns and the tool turns that contain the error marker.
Untouchable(h, i) ==
    \/ i > Len(h) - 3
    \/ h[i].role = "user"
    \/ (h[i].role = "tool" /\ Includes(h[i].content, "Error:"))

\* C18: in the outbound list the 3 most recent turns, every user turn and
\* every tool turn containing 'Error:' have exactly the content of the stored
\* turn, whatever their size; only other turns are shortened, and a turn
\* containing 'Error:' is never reduced to head and tail slices: it keeps
\* every line it has.
C18_OutboundKeepsRecentUserAndErrorTurns ==
    lastOp.op = "getMessages" =>
        /\ Len(outbound) = Len(history) + 1
        /\ outbound[1] = SystemTurn
        /\ \A i \in 1..Len(history) :
            /\ outbound[i + 1].role = history[i].role
            /\ outbound[i + 1].tool_calls = history[i].tool_calls
            /\ outbound[i + 1].tool_call_id = history[i].tool_call_id
            /\ Untouchable(history, i) => ~Shortened(i)
            /\ Includes(history[i].content, "Error:") =>
                  /\ ~Includes(outbound[i + 1].content, CompressedMarker)
                  /\ SelectSeq(outbound[i + 1].content, IsWord)
                       = SelectSeq(history[i].content, IsWord)

C18_Witness ==
    /\ lastOp.op = "getMessages"
    /\ Len(history) = 13
    /\ Includes(outbound[4].content, CompressedMarker)
    /\ Len(outbound[4].content) = 2 * (2 * KeepLines - 1) + 5
    /\ history[4].content = LongErrorOutput /\ ~Shortened(4)
    /\ Shortened(5) /\ ~Includes(outbound[6].content, CompressedMarker)
    /\ history[6].content = LongOutput /\ ~Shortened(6)
    /\ history[13].content = LongOutput /\ history[13].role = "tool"
    /\ ~Shortened(13)

Mutators == {"addUser", "addAssistant", "addToolResult", "prune", "clear"}

\* The last call was a mutation that changed the stored turn list.
ListChanged == lastOp.op \in Mutators /\ history # lastOp.before

WasPersisted(id) == disk[id].exists /\ IsJson(disk[id].text)

\* C20: persist then reload is a round trip: for every turn list persisted
\* under a session id, loadFromDisk(id) finds it and reads exactly that list;
\* the call makes it the stored list, returns true and makes id the current
\* session id, and later mutations are persisted under that id.
C20_PersistThenLoadIsARoundTrip ==
    /\ \A id \in SessionIds :
          WasPersisted(id) =>
              /\ loadFromDisk(disk, id, history).found
              /\ loadFromDisk(disk, id, history).messages = persisted[id]
    /\ (lastOp.op = "loadFromDisk" /\ WasPersisted(lastOp.id)) =>
          /\ lastOp.returned
          /\ history = persisted[lastOp.id]
          /\ sessionId = lastOp.id
    /\ resumed # "" => sessionId = resumed
    /\ (resumed # "" /\ saveHistory /\ ListChanged) =>
          /\ persisted[resumed] = history
          /\ JSON_parse(disk[resumed].text) = history

C20_Witness ==
    /\ resumed = "s2"
    /\ sessionId = "s2"
    /\ lastOp.op = "addUser"
    /\ lastOp.before = Pattern(5)
    /\ lastOp.before[2].tool_calls = PatternCalls
    /\ lastOp.before[3].tool_call_id = "c1"
    /\ Includes(lastOp.before[3].content, "\n")
    /\ history = Append(Pattern(5), UserTurn(LongOutput))
    /\ JSON_parse(disk["s2"].text) = history

\* The last call was loadFromDisk(id) for an id whose file is missing or is
\* not valid JSON. (A load never writes a file, so the files are those the
\* call met.)
FailedLoad ==
    /\ lastOp.op = "loadFromDisk"
    /\ ~ WasPersisted(lastOp.id)

\* C21: loadFromDisk(id) for an id whose persisted file is missing
\* or is not valid JSON does not throw, and afterwards the memory holds an
\* empty history.
C21_FailedLoadLeavesAnEmptyHistory ==
    FailedLoad => (~ lastOp.threw /\ history = <<>>)

\* What the code does instead: the call does not throw and returns false, and
\* the memory holds afterwards the history it held before the call.
FailedLoadKeepsTheHistory ==
    FailedLoad =>
        /\ ~ lastOp.threw
        /\ ~ lastOp.returned
        /\ history = lastOp.before

\* C22: in every session state reachable by setMode, setModel,
\* clearModelOverride and runSwarmTask, calls that throw included, a set
\* manualOverride implies that activeModel is set; and the operations that
\* clear the lock, clearModelOverride and setMode('auto'), clear activeModel too.
C22_LockImpliesModel ==
    /\ manualOverride => activeModel # ""
    /\ (/\ ~ sessionCall.threw
        /\ \/ sessionCall.op = "clearModelOverride"
           \/ sessionCall.op = "setMode" /\ sessionCall.arg = <<"auto">>)
          => (~ manualOverride /\ activeModel = "")

C22_Witness ==
    /\ sessionCall.op = "runSwarmTask"
    /\ sessionCall.threw
    /\ sessionCall.before.activeModel = SwarmFreeModels[2]
    /\ manualOverride
    /\ activeModel = "user/model-x"

\* C23: route(prompt) leaves the session state as it is and returns: the
\* locked model with the session mode and routed = false when a model is
\* manually locked, whatever the prompt and the mode; otherwise, when the
\* session mode is not 'auto', the static default model of that mode with
\* routed = false; and routed = true, with the mode classifyIntent returns
\* and the default model of that mode, only when neither holds.
C23_RouteFollowsLockThenMode ==
    sessionCall.op = "route" =>
        LET st == sessionCall.before
            r == sessionCall.result
        IN  /\ Session = st
            /\ st.manualOverride =>
                  r = [model |-> st.activeModel, mode |-> st.mode, routed |-> FALSE]
            /\ (~ st.manualOverride /\ st.mode # "auto") =>
                  r = [model |-> MODE_DEFAULTS[st.mode], mode |-> st.mode,
                       routed |-> FALSE]
            /\ r.routed <=> (~ st.manualOverride /\ st.mode = "auto")
            /\ r.routed =>
                  /\ r.mode = classifyIntent(sessionCall.arg)
                  /\ r.model = getDefaultModel(r.mode)

C23_Witness ==
    /\ sessionCall.op = "route"
    /\ sessionCall.before = SessionState("code", "user/model-x", TRUE)
    /\ sessionCall.result.model = "user/model-x"
    /\ sessionCall.result.mode = "code"
    /\ ~ sessionCall.result.routed
    /\ swarm.phase = 2

\* ---------------------------------------------------------- the router claims
ModeNames == {INTENTS[i].mode : i \in 1..Len(INTENTS)}

\* The score of a mode in twentieths: the number of its keywords present as
\* whole words times its weight, plus the number of its phrases present as
\* substrings times its weight times 1.5.
ClaimedScore(prompt, m) ==
    LET intent == INTENTS[IntentOf(m)]
    IN  2 * intent.weight * Cardinality(MatchedKeywords(prompt, intent))
        + 3 * intent.weight * Cardinality(MatchedPhrases(prompt, intent))

NothingMatches(prompt) == \A m \in ModeNames : ClaimedScore(prompt, m) = 0

\* The modes with the highest score.
TopModes(prompt) ==
    {m \in ModeNames : \A n \in ModeNames : ClaimedScore(prompt, n) <= ClaimedScore(prompt, m)}

\* The last call was classifyIntent.
Classified == sessionCall.op = "classifyIntent"

RefactorExample ==
    Spaced(<< <<"refactor">>, <<"this">>, <<"function">>, <<"to">>, <<"be">>,
              <<"more">>, <<"efficient">> >>)

\* C24: for an input of six or more words, classifyIntent returns 'reason'
\* when no keyword and no phrase of any mode matches, and otherwise a mode
\* whose score is the maximum over all modes; 'refactor this function to be
\* more efficient' yields the code mode.
C24_LongInputGetsATopScoringMode ==
    (Classified /\ WordCount(sessionCall.arg) >= 6) =>
        /\ NothingMatches(sessionCall.arg) => sessionCall.result.mode = "reason"
        /\ ~ NothingMatches(sessionCall.arg) =>
              sessionCall.result.mode \in TopModes(sessionCall.arg)
        /\ sessionCall.arg = RefactorExample => sessionCall.result.mode = "code"

C24_Witness ==
    /\ Classified
    /\ sessionCall.arg = RefactorExample
    /\ ClaimedScore(sessionCall.arg, "code") = 40
    /\ ClaimedScore(sessionCall.arg, "optimize") = 28
    /\ sessionCall.result.mode = "code"

\* Two or more modes share the highest score of the input (of six or more
\* words, so that the scores decide).
Tied(prompt) ==
    /\ WordCount(prompt) >= 6
    /\ ~ NothingMatches(prompt)
    /\ Cardinality(TopModes(prompt)) >= 2

\* C25: when two or more modes share the highest score, classifyIntent
\* returns one fixed tie-break mode, the same mode for every set of tied
\* modes: the mode returned for a tie is the mode returned for every tie.
C25_OneTieBreakMode ==
    (Classified /\ Tied(sessionCall.arg)) =>
        \A other \in RouterPrompts :
            Tied(other) => classifyIntent(other) = sessionCall.result.mode

\* What the code does instead: of the tied modes it returns the one that
\* comes first in the order of Object.entries(scores).
TieGoesToTheFirstInOrder ==
    (Classified /\ Tied(sessionCall.arg)) =>
        \E i \in 1..Len(ScoreOrder) :
            /\ ScoreOrder[i] = sessionCall.result.mode
            /\ ScoreOrder[i] \in TopModes(sessionCall.arg)
            /\ \A j \in 1..(i - 1) : ScoreOrder[j] \notin TopModes(sessionCall.arg)

\* The input contains a keyword of the code mode, as String.includes finds it.
ContainsCodeKeyword(prompt) ==
    \E k \in INTENTS[IntentOf("code")].keywords :
        IncludesText(toLowerCase(prompt), Literal(k))

WhyIsThis == Spaced(<< <<"why">>, <<"is">>, <<"this">> >>)

IsKeywordToken(text, i) ==
    \E n \in 1..Len(INTENTS) : <<toLowerCase(text)[i]>> \in INTENTS[n].keywords

\* The first and the last token of the word that token i belongs to.
WordStart(text, i) ==
    CHOOSE j \in 1..i :
        /\ \A m \in j..i : IsWordToken(text[m])
        /\ j = 1 \/ ~ IsWordToken(text[j - 1])

WordEnd(text, i) ==
    CHOOSE j \in i..Len(text) :
        /\ \A m \in i..j : IsWordToken(text[m])
        /\ j = Len(text) \/ ~ IsWordToken(text[j + 1])

\* Token i belongs to a longer word that has a keyword inside.
InEmbeddingWord(text, i) ==
    /\ IsWordToken(text[i])
    /\ WordStart(text, i) < WordEnd(text, i)
    /\ \E m \in WordStart(text, i)..WordEnd(text, i) : IsKeywordToken(text, m)

IsToken(t) == t # ""

\* The input with every such word replaced by a word that contains no keyword.
WithoutEmbeddedKeywords(text) ==
    SelectSeq([i \in 1..Len(text) |->
                  IF ~ InEmbeddingWord(text, i) THEN text[i]
                  ELSE IF WordStart(text, i) = i THEN "thing" ELSE ""],
              IsToken)

\* C27: keyword matching is whole-word everywhere a keyword is tested: an
\* input in which a keyword occurs only inside a longer word is classified
\* exactly as the same input with that longer word replaced by a word that
\* contains no keyword.
C27_KeywordInsideAWordDoesNotCount ==
    (Classified /\ WithoutEmbeddedKeywords(sessionCall.arg) # sessionCall.arg) =>
        sessionCall.result.mode = classifyIntent(WithoutEmbeddedKeywords(sessionCall.arg))

\* What does hold: it is so for inputs of six or more words, where only the
\* scoring tests keywords.
LongInputIgnoresEmbeddedKeywords ==
    (/\ Classified
     /\ WordCount(sessionCall.arg) >= 6
     /\ WithoutEmbeddedKeywords(sessionCall.arg) # sessionCall.arg) =>
        sessionCall.result.mode = classifyIntent(WithoutEmbeddedKeywords(sessionCall.arg))

\* The classifications the prompts of the router get.
ClassifiedAs(words, m) ==
    (Classified /\ sessionCall.arg = Spaced(words)) => sessionCall.result.mode = m

Classifications ==
    /\ ClassifiedAs(<< <<"fix">>, <<"the">>, <<"class", "ifier">>, <<"bug">> >>, "debug")
    /\ ClassifiedAs(<< <<"fix">>, <<"the">>, <<"sorter">>, <<"bug">> >>, "reason")
    /\ ClassifiedAs(<< <<"explore">>, <<"the">>, <<"c", "api", "tal">>, <<"data">> >>, "data")
    /\ ClassifiedAs(<< <<"explore">>, <<"the">>, <<"city">>, <<"data">> >>, "reason")
    /\ ClassifiedAs(<< <<"write">>, <<"a">>, <<"parser">> >>, "code")
    /\ ClassifiedAs(<< <<"plan">>, <<"the">>, <<"data">>, <<"for">>, <<"the">>,
                       <<"next">>, <<"quarter">> >>, "plan")
    /\ ClassifiedAs(<< <<"fix">>, <<"the">>, <<"bug">>, <<"then">>, <<"write">>,
                       <<"and">>, <<"create">>, <<"a">>, <<"class">> >>, "debug")
    /\ ClassifiedAs(<< <<"fix">>, <<"it">>, <<"and">>, <<"add">>, <<"a">>,
                       <<"feature">>, <<"now">> >>, "debug")
    /\ ClassifiedAs(<< <<"create">>, <<"a">>, <<"function">>, <<"for">>, <<"the">>,
                       <<"dead", "line">>, <<"number">> >>, "debug")
    /\ ClassifiedAs(<< <<"Why">>, <<"does">>, <<"the">>, <<"build">>, <<"fail">>,
                       <<"on">>, <<"the">>, <<"server", "?">> >>, "reason")
    /\ ClassifiedAs(<< <<"the">>, <<"stack">>, <<>>, <<"trace">>, <<"shows">>,
                       <<"nothing">>, <<"useful">> >>, "debug")
    /\ ClassifiedAs(<< <<"the">>, <<"class", "ifier">>, <<"needs">>, <<"a">>,
                       <<"much">>, <<"larger">>, <<"corpus">> >>, "reason")
    /\ ClassifiedAs(<< <<"please">>, <<"tell">>, <<"me">>, <<"a">>, <<"short">>,
                       <<"joke">>, <<"now">> >>, "reason")

\* ---------------------------------------------------------- after the sentinel
\* The promise of the stream was resolved by the sentinel.
ResolvedOnSentinel == dec.doneSeen /\ dec.settled = "resolved"

\* C30: once the stream has resolved on the [DONE] sentinel, data that
\* arrives later on the same response neither invokes the onDelta callback
\* nor changes the text or the tool-call list of the result that was resolved.
C30_NothingHappensAfterTheSentinel ==
    [][ResolvedOnSentinel =>
          /\ dec'.deltas = dec.deltas
          /\ dec'.resText = dec.resText
          /\ ResultTools(dec') = ResultTools(dec)]_vars

\* What does hold: the text of the resolved result stays as it was, and the
\* promise stays resolved.
ResolvedTextStays ==
    [][ResolvedOnSentinel =>
          /\ dec'.resText = dec.resText
          /\ dec'.settled = "resolved"]_vars

\* ------------------------------------------------------------- settling
Settled == dec.settled # "pending"

\* C29: every stream call eventually settles, and settles once, whatever the
\* transport does: sentinel or end resolve it; another status, a response
\* error, a request error and the idle timeout reject it.
C29_EveryCallSettles == <>[]Settled

\* The response of another status that was cut before its end.
CutErrorResponse == closedBy = "response error" /\ statusCode # 200

\* What does hold: every call settles except the one whose response of
\* another status is cut before its end.
SettlesUnlessErrorResponseIsCut == <>[](Settled \/ CutErrorResponse)

\* A settled promise stays as it was settled.
SettlesAtMostOnce ==
    [][Settled => /\ dec'.settled = dec.settled
                  /\ dec'.error = dec.error
                  /\ dec'.resText = dec.resText]_vars

\* The outcome by the event that settles the promise.
OutcomeByEvent ==
    [][(~Settled /\ dec'.settled # "pending") =>
          /\ dec'.settled = "resolved" <=>
                (statusCode = 200 /\ (dec'.doneSeen \/ closedBy' = "end"))
          /\ (closedBy' = "timeout") => dec'.error.text = <<"Request timed out">>
          /\ (closedBy' = "request error") =>
                dec'.error.text = <<"Network error: ", "ECONNRESET">>
          /\ (closedBy' = "end" /\ statusCode # 200) =>
                dec'.error.status = statusCode]_vars

\* The failure of a timeout is none that run() retries on the fallback model.
TimeoutIsNoCapacityError ==
    (closedBy = "timeout" /\ dec.settled = "rejected") =>
        ~IsCapacityError(dec.error.text)

\* ------------------------------------------------------- the self-correction
IsNudge(m) ==
    m.role = "user" /\ m.content # <<>> /\ m.content[1] = "[PRO SELF-CORRECTION:"

\* The outbound message list of the iteration has been built and sent.
MessagesSent == pc = "stream"

\* The last stored turn is the tool turn of an invocation that failed.
LastTurnReportsFailure ==
    /\ Len(history) > 0
    /\ Last(history).role = "tool"
    /\ dispatched # <<>>
    /\ ~ Last(dispatched).success

\* The last stored turn is a tool turn whose content includes 'Error:'.
LastTurnHasErrorMarker ==
    /\ Len(history) > 0
    /\ Last(history).role = "tool"
    /\ Includes(Last(history).content, "Error:")

NoStoredNudge ==
    /\ \A i \in 1..Len(history) : ~ IsNudge(history[i])
    /\ \A id \in SessionIds : \A i \in 1..Len(persisted[id]) : ~ IsNudge(persisted[id][i])

\* C28: in each iteration of run(), the outbound message list ends with a
\* self-correction instruction turn if and only if the immediately preceding
\* stored turn is a tool turn reporting a failed invocation; the instruction
\* turn is never added to the stored history and never persisted.
C28_NudgeExactlyAfterAFailedInvocation ==
    /\ MessagesSent => (IsNudge(Last(outbound)) <=> LastTurnReportsFailure)
    /\ NoStoredNudge

\* What does hold: the instruction turn is sent exactly when the last stored
\* turn is a tool turn that includes 'Error:', which every turn of a failed
\* invocation does; it quotes that turn, and it is never stored.
NudgeFollowsTheErrorMarker ==
    /\ MessagesSent =>
          /\ IsNudge(Last(outbound)) <=> LastTurnHasErrorMarker
          /\ LastTurnReportsFailure => IsNudge(Last(outbound))
          /\ IsNudge(Last(outbound)) =>
                /\ outbound = Append(getMessages(history).messages,
                                     correctionNudge(Last(history).content))
                /\ histAtCall = history
    /\ NoStoredNudge

\* An instruction turn is sent after a failed invocation.
NudgeSentAfterFailure ==
    /\ MessagesSent
    /\ LastTurnReportsFailure
    /\ IsNudge(Last(outbound))

\* ------------------------------------------------------------ the run state
\* run() has appended the user turn and has not left yet.
RunInProgress == pc # "idle"

\* run() has left after it appended the user turn: by a return (final answer
\* or iteration ceiling) or by an error thrown inside the loop.
RunLeft == pc = "idle" /\ appended # <<>>

\* C31: while run() is in progress isThinking is true; once it has left on
\* any path after the user turn was appended (final answer, iteration
\* ceiling, an error thrown by the provider or by the handling of a tool
\* call) isThinking is false and the last status published is IDLE.
C31_ThinkingExactlyWhileRunning ==
    /\ RunInProgress => isThinking
    /\ RunLeft => /\ ~isThinking
                  /\ status = "IDLE"
                  /\ last.outcome \in {"returned", "threw"}

\* A run that was stopped by the iteration ceiling after the run before it
\* had thrown.
C31_Witness ==
    /\ RunLeft
    /\ prev = "threw"
    /\ last.outcome = "returned"
    /\ last.iterations = MAX_ITERATIONS
    /\ ~isThinking

\* The other exits: a run that threw after its user turn was appended.
ThrewAfterUserTurn == RunLeft /\ last.outcome = "threw" /\ Len(appended) > 1

\* ------------------------------------------------------- the ceiling warning
\* The run was stopped by the iteration ceiling: it returned while its last
\* response still carried tool calls.
StoppedByCeiling ==
    RunEnded /\ last.outcome = "returned" /\ run.response.toolCalls # <<>>

\* C32: the maximum-iterations warning is emitted exactly when the run was
\* stopped by the iteration ceiling; a run that ended on a response without
\* tool calls never emits it, whichever iteration the response arrived in.
C32_WarningExactlyAtTheCeiling == RunEnded => (warned <=> StoppedByCeiling)

\* What does hold: the warning follows the count of iterations, whatever
\* ended the run.
WarningFollowsTheCount ==
    (RunEnded /\ last.outcome = "returned") =>
        (warned <=> last.iterations = MAX_ITERATIONS)

\* The final answer of the 20th iteration.
FinalAnswerInLastIteration ==
    ReturnedFinal /\ last.iterations = MAX_ITERATIONS /\ last.text = FinalText

\* ------------------------------------------------------- success of execute
\* The name of the last execute was among the keys of the registry.
WasRegistered ==
    \E i \in 1..Len(lastCall.keys) : lastCall.keys[i] = lastCall.name

\* C33: execute returns success = true exactly when a handler is registered
\* under the name and returns without throwing, whatever the value returned;
\* it returns success = false exactly when the name is not registered or the
\* handler throws.
C33_SuccessIffRegisteredHandlerReturns ==
    lastCall.name # "" =>
        (execResult.success <=> (WasRegistered /\ lastCall.outcome.kind = "returns"))

\* What does hold: for the names that objects do not inherit, success says
\* that a registered handler returned, and the value returned is passed on
\* as it is.
SuccessIffHandlerReturnsForOwnNames ==
    (lastCall.name # "" /\ lastCall.name \notin DOMAIN ObjectPrototype) =>
        /\ execResult.success <=> (WasRegistered /\ lastCall.outcome.kind = "returns")
        /\ execResult.success => execResult.result = lastCall.outcome.value

\* A handler that returned an object reporting its own failure.
ReturnedFailureObject ==
    /\ WasRegistered
    /\ lastCall.outcome.kind = "returns"
    /\ lastCall.outcome.value[1] = "success:"
    /\ execResult.success

\* --------------------------------------------------------- the build round
\* C34: the session can be put in mode 'build', and in that mode the test
\* runner is invoked after exactly the tool rounds with a write_file,
\* edit_file, apply_diff or run_shell invocation, a failure of the tests
\* appending one corrective turn to the stored history. The formula states
\* what all of it rests on: setMode('build') puts the session in mode 'build'.
C34_SessionCanBePutInBuildMode ==
    (sessionCall.op = "setMode" /\ sessionCall.arg = <<"build">>) =>
        (~sessionCall.threw /\ mode = "build")

\* What does hold of the session: its mode is never 'build', and
\* setMode('build') throws and leaves it as it was.
ModeIsNeverBuild ==
    /\ mode # "build"
    /\ (sessionCall.op = "setMode" /\ sessionCall.arg = <<"build">>) =>
          (sessionCall.threw /\ Session = sessionCall.before)

\* What does hold of run(): no round is followed by the test runner, so the
\* stored history never holds the corrective turn, also after rounds with a
\* state-modifying invocation.
NoRoundRunsTheTests ==
    /\ mode # "build"
    /\ \A i \in 1..Len(history) : history[i] # HealingTurn

\* A finished round with a state-modifying invocation.
StateModifyingRoundDone ==
    /\ pc = "loop"
    /\ run.stateModified
    /\ run.iterations >= 1

\* ---------------------------------------------------------- fan-out and join
\* The sub-agents a fan-out of this kind has: the reasoning paths, or one
\* reviewer per persona.
FanWidth == IF fan.op = "spawnCouncil" THEN Len(fan.context) ELSE numPaths

\* The calls of the sub-agents, and whether the aggregation call was issued.
SubAgentCalls == { i \in 1..Len(fan.calls) : fan.calls[i].by # 0 }

AggregationIssued == \E i \in 1..Len(fan.calls) : fan.calls[i].by = 0

FanOutAndJoin ==
    fan.op # "none" =>
        \* every sub-agent's call was issued when the fan-out was started
        /\ Cardinality(SubAgentCalls) = FanWidth
        /\ Len(fan.paths) = FanWidth
        \* each on its own list, which stays as it was built
        /\ \A i \in 1..Len(fan.paths) :
              /\ fan.calls[i].by = i
              /\ fan.calls[i].messages = fan.paths[i].messages
              /\ fan.paths[i].messages[1].content[2] = ToString(i)
        \* the aggregation call follows the last resolution
        /\ AggregationIssued => AllResolved(fan.paths)
        /\ fan.pc = "aggregate" => AggregationIssued
        \* the outcome: the aggregated answer, or the failure of a call
        /\ fan.pc = "returned" =>
              /\ AggregationIssued
              /\ fan.result # <<>>
        /\ fan.pc = "threw" =>
              \/ \E i \in 1..Len(fan.paths) : fan.paths[i].state = "rejected"
              \/ AggregationIssued

\* C35: in aggregateReasoning and in spawnCouncil every fanned-out provider
\* call is issued before any of them is awaited, each sub-agent works on its
\* own message list, the aggregation call is issued only after every
\* fanned-out call has resolved, in whatever order they complete, and the
\* call ends with the aggregated answer (spawnCouncil with the synthesized
\* report) unless a provider call failed.
C35_FanOutThenJoinThenAggregate == FanOutAndJoin

\* What does hold: aggregateReasoning fans out, joins and aggregates as
\* claimed.
ReasoningFansOutAndJoins == (fan.op = "aggregateReasoning") => FanOutAndJoin

\* No path's message list changes after it was built.
PathListsStay ==
    [][fan.op = "aggregateReasoning" =>
          \A i \in 1..numPaths : fan'.paths[i].messages = fan.paths[i].messages]_vars

\* The paths resolved with different answers and the answers were aggregated
\* in the order of the paths.
AggregatedAfterOutOfOrderCompletion ==
    /\ fan.pc = "returned"
    /\ fan.calls[numPaths + 1].messages
         = DistillMessages(fan.problem, PathResults(fan.paths))
    /\ fan.paths[1].text = <<>>
    /\ fan.paths[2].text # <<>>

\* -------------------------------------------------------- the swarm restores
\* runSwarmTask has returned or thrown.
SwarmOver == sessionCall.op = "runSwarmTask"

\* The values of mode, activeModel and manualOverride before the call.
SwarmOriginal ==
    SessionState(sessionCall.arg[1], sessionCall.arg[2], sessionCall.arg[3])

\* C36: after runSwarmTask has returned or thrown, mode, activeModel and
\* manualOverride have the values they had before the call, for every
\* session state it is called in and for both values of useFreeModels.
C36_SwarmRestoresTheSession == SwarmOver => Session = SwarmOriginal

\* What does hold: the lock of a session that had a model locked is restored
\* with its model, and the mode of a session that had none is restored.
SwarmRestoresLockOrMode ==
    SwarmOver =>
        IF SwarmOriginal.manualOverride
        THEN /\ manualOverride
             /\ activeModel = SwarmOriginal.activeModel
        ELSE mode = SwarmOriginal.mode

\* A swarm on free models in a session without a locked model leaves the
\* session locked on the free model of the last phase.
SwarmLeavesFreeModelLocked ==
    /\ SwarmOver
    /\ ~SwarmOriginal.manualOverride
    /\ manualOverride
    /\ activeModel = SwarmFreeModels[3]

\* A swarm on the modes in a session with a locked model leaves the mode of
\* the last phase.
SwarmLeavesPhaseMode ==
    /\ SwarmOver
    /\ SwarmOriginal.manualOverride
    /\ SwarmOriginal.mode = "reason"
    /\ mode = SwarmModes[3]

\* ------------------------------------------------------------ registerTool
RegisterStep == registrations' # registrations \/ registerCalls' # registerCalls

ExecuteStep == lastCall' # lastCall

\* The names the model executes or registers.
KnownNames == ExecuteNames \cup RegisterNames

\* What a registerTool call does to the other names, and what a call with a
\* handler that is no function does.
RegisterLeavesOtherNames ==
    RegisterStep =>
        /\ registrations'.threw <=> registrations'.handler = "not a function"
        /\ registrations'.threw => TOOL_HANDLERS' = TOOL_HANDLERS
        /\ \A other \in KnownNames \ {registrations'.name} :
              Lookup(TOOL_HANDLERS', other) = Lookup(TOOL_HANDLERS, other)

\* execute calls the handler of the last registerTool call for the name that
\* returned.
ExecuteCallsLatestHandler ==
    (ExecuteStep /\ lastCall'.name \in RegisterNames
                 /\ registrations.latest[lastCall'.name] # "") =>
        lastCall'.handler = registrations.latest[lastCall'.name]

\* C37: after any sequence of registerTool calls execute(name) invokes the
\* handler of the most recent registerTool call for the name, a registerTool
\* call changes the handler of no other name, and a registerTool call with a
\* handler that is not a function throws and leaves the registry as it was.
C37_RegisterReplacesOneHandler ==
    [][RegisterLeavesOtherNames /\ ExecuteCallsLatestHandler]_vars

\* What does hold: the same for every name but __proto__, whose assignment
\* replaces what the registry inherits.
RegisterReplacesOneOwnHandler ==
    [][/\ ExecuteCallsLatestHandler
       /\ (RegisterStep /\ registrations'.name # "__proto__")
             => RegisterLeavesOtherNames]_vars

\* A handler that was replaced, and the replacement was called.
ReplacedHandlerCalled ==
    /\ lastCall.name = "my_tool"
    /\ lastCall.handler = "h2"
    /\ registerCalls = 2
    /\ registrations.latest["my_tool"] = "h2"
    /\ execResult.success

\* The content with the first occurrence of the search text replaced by the
\* replacement text as given.
ReplaceFirstOccurrence(content, search, replacement) ==
    LET i == FirstIndexOf(content, search)
    IN  SubSeq(content, 1, i - 1) \o replacement
        \o SubSeq(content, i + Len(search), Len(content))

\* The chunks from the i-th on applied in order to the content, each to the
\* content as edited by the preceding ones.
RECURSIVE ChunksInOrder(_, _, _)
ChunksInOrder(content, chunks, i) ==
    IF i > Len(chunks) THEN [ok |-> TRUE, content |-> content]
    ELSE IF ~ContentIncludes(content, chunks[i].search)
    THEN [ok |-> FALSE, content |-> content]
    ELSE ChunksInOrder(ReplaceFirstOccurrence(content, chunks[i].search,
                                              chunks[i].replace), chunks, i + 1)

\* edit_file or apply_diff was called with chunks (blocks) on a file that is
\* there.
FileToolCalled ==
    fileCall.op # "none" /\ fileCall.before.exists /\ fileCall.chunks # <<>>

\* The outcome of the call is the all-or-nothing one for the chunks.
AllOrNothing ==
    LET want == ChunksInOrder(fileCall.before.content, fileCall.chunks, 1)
    IN  IF want.ok
        THEN /\ ~fileCall.threw
             /\ file.content = want.content
             /\ file.writes = fileCall.before.writes + 1
        ELSE fileCall.threw /\ file = fileCall.before

\* C38: edit_file and apply_diff are all-or-nothing: when the search text of
\* a chunk or block is absent from the content as edited by the preceding
\* chunks the call throws and the file is unchanged; otherwise every chunk is
\* applied in the given order, each replacing the first occurrence of its
\* search text, and the file is written once with all replacements.
C38_EditsAreAllOrNothing == FileToolCalled => AllOrNothing

\* A replacement text holds one of the patterns that replace() expands.
HasReplacementPattern(chunks) ==
    \E i \in 1..Len(chunks) : \E j \in 1..Len(chunks[i].replace) :
        chunks[i].replace[j] \in {"$$", "$&", "$`", "$'"}

\* What does hold: the same for chunks whose replacement texts hold no
\* replacement pattern.
AllOrNothingWithoutPatterns ==
    (FileToolCalled /\ ~HasReplacementPattern(fileCall.chunks)) => AllOrNothing

\* And for every call: a call that throws leaves the file, one that returns
\* wrote it once.
ThrowsOrWritesOnce ==
    fileCall.op # "none" =>
        IF fileCall.threw THEN file = fileCall.before
        ELSE file.writes = fileCall.before.writes + 1

\* Two chunks were applied, the second to text the first one wrote.
SecondChunkEditedTheFirst ==
    /\ fileCall.op = "edit_file"
    /\ ~fileCall.threw
    /\ fileCall.chunks = << [search |-> <<"Line 2">>, replace |-> <<"Line TWO">>],
                            [search |-> <<"Line TWO">>, replace |-> <<"Line 2">>] >>
    /\ file.content = fileCall.before.content

\* A diff whose second block is absent was refused after the first matched.
SecondBlockRefused ==
    /\ fileCall.op = "apply_diff"
    /\ fileCall.threw
    /\ Len(fileCall.chunks) = 2
    /\ ContentIncludes(fileCall.before.content, fileCall.chunks[1].search)
    /\ file = fileCall.before

\* The number of lines of the content that end with the task.
LinesFor(content, task) ==
    Cardinality({ i \in 1..Len(content) :
        /\ i + Len(task) - 1 <= Len(content)
        /\ toLowerCase(SubSeq(content, i, i + Len(task) - 1)) = toLowerCase(task)
        /\ (i + Len(task) <= Len(content) => content[i + Len(task)] = "\n") })

\* The content of the task file after the n-th call.
ContentAfter(n) ==
    IF n < Len(todoCalls) THEN todoCalls[n + 1].before ELSE taskFile.content

\* The n-th call added a task the file had no line for, and the next call
\* updated it.
AddThenUpdate(n) ==
    /\ n + 1 <= Len(todoCalls)
    /\ todoCalls[n].action = "add"
    /\ todoCalls[n + 1].action = "update"
    /\ todoCalls[n + 1].task = todoCalls[n].task
    /\ LinesFor(todoCalls[n].before, todoCalls[n].task) = 0

\* The call after the update deleted the task.
ThenDelete(n) ==
    /\ n + 2 <= Len(todoCalls)
    /\ todoCalls[n + 2].action = "delete"
    /\ todoCalls[n + 2].task = todoCalls[n].task

\* C39: for any task text, after todo_write add(task) a following update(task,
\* status) rewrites the task's line in place, so the task file holds exactly
\* one line for the task and it carries the new checkbox ('[/]' for progress,
\* '[x]' for done, '[ ]' for todo); a following delete(task) leaves no line
\* for the task in the file.
C39_UpdateRewritesTheLineInPlace ==
    \A n \in 1..Len(todoCalls) :
        AddThenUpdate(n) =>
            /\ LinesFor(ContentAfter(n + 1), todoCalls[n].task) = 1
            /\ ContentIncludes(ContentAfter(n + 1),
                   TaskLine(Checkbox(todoCalls[n + 1].status), todoCalls[n].task)
                   \o <<"\n">>)
            /\ ThenDelete(n) => LinesFor(ContentAfter(n + 2), todoCalls[n].task) = 0

\* What the calls do: the update appends a second line with the new checkbox
\* after the line of add, and delete then removes neither.
UpdateAppendsASecondLine ==
    \A n \in 1..Len(todoCalls) :
        AddThenUpdate(n) =>
            /\ ContentAfter(n + 1) =
                   ContentAfter(n)
                   \o TaskLine(Checkbox(todoCalls[n + 1].status), todoCalls[n].task)
                   \o <<"\n">>
            /\ LinesFor(ContentAfter(n + 1), todoCalls[n].task) = 2
            /\ ThenDelete(n) => ContentAfter(n + 2) = ContentAfter(n + 1)

\* A line with spaces around the mark is rewritten in place and deleted.
SpacedLineIsRewrittenAndDeleted ==
    \A n \in 1..Len(todoCalls) :
        (/\ todoCalls[n].before = HandWrittenTaskFile
         /\ todoCalls[n].task \in {<<"Fix", " ", "bug">>, <<"fix", " ", "bug">>}) =>
            /\ todoCalls[n].action = "update" =>
                   ContentAfter(n) = TaskFileHeader
                       \o TaskLine(Checkbox(todoCalls[n].status), todoCalls[n].task)
                       \o <<"\n">>
            /\ todoCalls[n].action = "delete" => ContentAfter(n) = TaskFileHeader

\* add, update to progress, delete of one task on a new task file: two lines
\* are left.
AddUpdateDeleteLeavesTwoLines ==
    /\ Len(todoCalls) = 3
    /\ todoCalls[1].before = <<>>
    /\ AddThenUpdate(1) /\ ThenDelete(1)
    /\ todoCalls[2].status = "progress"
    /\ LinesFor(taskFile.content, todoCalls[1].task) = 2

\* A hand-written line was rewritten in place by an update.
SpacedLineRewritten ==
    /\ Len(todoCalls) = 1
    /\ todoCalls[1].action = "update"
    /\ todoCalls[1].before = HandWrittenTaskFile
    /\ taskFile.content = TaskFileHeader
           \o TaskLine(<<"[", "/", "]">>, <<"Fix", " ", "bug">>) \o <<"\n">>

====
